---- MODULE Spec2Model ----
(***************************************************************************)
(* A model of the chain shell of yeeco/gyee (p2p/shell/chainshell.go):     *)
(* the peer table, the two deduplication maps K (deDupKeyMap) and P        *)
(* (deDupMap), the deduplication timer manager, the shell task, the        *)
(* rx-worker goroutine of every peer and the deduplication tick goroutine. *)
(*                                                                         *)
(* Granularity.  A step of the model is a maximal piece of a goroutine     *)
(* that ends where the goroutine may have to wait (a mutex it does not     *)
(* hold, a channel send) or where it releases a mutex that protected what  *)
(* it did.  sync.Mutex values are variables holding their owner.           *)
(*                                                                         *)
(* A shellPeerID (snid, dir, nodeId) is modelled by the node name alone:   *)
(* one sub network and one connection per pair of nodes.                   *)
(*                                                                         *)
(* dht.TimerManager is not part of the source files at hand; it is         *)
(* modelled from its use in chainshell.go and from the specification's     *)
(* timer contract (get_timer may fail with ResourceExhausted, start_timer  *)
(* arms the timer, an expired timer runs its callback once inside          *)
(* TickProc, kill_timer removes it).  That StartTimer may return an error, *)
(* as the code provides for, is what SpecTmFail adds.                      *)
(*                                                                         *)
(* Time.  Durations are counted in ticks of the tick goroutine.  A handler *)
(* that is not waiting at a full channel is over before the second tick    *)
(* after its begin: 8 s and 55 s are long against the run of a handler.    *)
(*                                                                         *)
(* Channels.  A goroutine found at a send on a full tx channel waits in    *)
(* the queue of the channel; the receive of the peer instance that frees a *)
(* slot completes the send of the waiting goroutine in the same step.      *)
(*                                                                         *)
(* Systems.  Spec: the shell of node A with one peer, B, that sends what   *)
(* it likes.  SpecTmFail: the same with failing StartTimer.  SpecNoDedup:  *)
(* the same with the deduplication flag off.  SpecTwo: the shells of A and *)
(* B wired to each other.  SpecSkm: setKeyMap called by two goroutines.    *)
(*                                                                         *)
(* The scheduler (p2p/scheduler/schimpl.go) is modelled apart from the     *)
(* shell: the pool of task nodes with its free and busy rings, the name    *)
(* registry tkMap, the pool of timer nodes and the timer index tmMap, the  *)
(* goroutines of schCommonTask and of schTimerCommonTask, and goroutines   *)
(* that call schCreateTask, schStartTask, schStopTask and schSendMsg.  A   *)
(* section under sdl.lock is one step; the goroutine of a timer takes the  *)
(* lock of its task in a step of its own, and keeps the locks it has while *)
(* it waits at a full mailbox.  A channel of a task is the pair of         *)
(* its state and its buffer; a goroutine that waits at a channel waits at  *)
(* the channel it read from the field, which schTcbClean may close and     *)
(* schCreateTask replace meanwhile: the epoch of a node tells them apart.  *)
(* The entry function of a task makes at most one call of the scheduler    *)
(* per message.  The pool sizes are not in the source files at hand and    *)
(* are scaled down.  SpecSdl: two callers and the tasks, without timers.   *)
(* SpecSdlTm: one caller, the tasks and their timers.  A timer is set      *)
(* with a description of its type, duration, user id and payload; an       *)
(* absolute timer expires at most MaxTick times.  SpecStart: the goroutine *)
(* of schSchedulerStart, with a static task table and a list of names it   *)
(* is handed, and the tasks it creates.                                    *)
(***************************************************************************)
EXTENDS Integers, Sequences, FiniteSets, TLC

\* ------------------------------------------------------------ bounds ----

\* cap(txChan) of a peer instance (the channel is made by the peer manager).
TxCap == 1

\* keyTime and chkkTime in ticks of dht.OneTick, scaled down; what the model
\* keeps of 55 s against 8 s is ChkkTicks + 1 < KeyTicks.
KeyTicks == 3

ChkkTicks == 1

\* txDiscrd is counted up to this value; a step that would count further is
\* not taken.
MaxDiscard == 1

\* Two nodes wired to each other: the broadcast requests handed to their shells, in all.
MaxBcast == 2

Nodes == {"A", "B"}

Keys == {1}

\* ------------------------------------------------------- constants ----

pisActive == "pisActive"

pisClosing == "pisClosing"

SKM_OK == "SKM_OK"

SKM_DUPLICATED == "SKM_DUPLICATED"

SKM_FAILED == "SKM_FAILED"

KS_NOTEXIST == "KS_NOTEXIST"

KS_EXIST == "KS_EXIST"

NoLock == "unlocked"

NoVal == "none"

SchEnoNone == "SchEnoNone"

SchEnoUserTask == "SchEnoUserTask"

SchEnoNotFound == "SchEnoNotFound"

SchEnoDuplicated == "SchEnoDuplicated"

SchEnoMismatched == "SchEnoMismatched"

SchEnoResource == "SchEnoResource"

SchEnoParameter == "SchEnoParameter"

\* sch.MSBR_MT_EV, _TX, _BLKH, _BLK are handled alike: one stands for the four.
MsgTypes == {"MSBR_MT_TX"}

\* The broadcast requests the upper layer may hand in; the last message type is not a valid one.
BroadcastReqs == [key : Keys, exclude : Nodes \cup {NoVal}, mt : MsgTypes \cup {"MSBR_MT_UNKNOWN"}]

\* Two nodes wired to each other: the requests are valid ones that exclude no peer.
WiredReqs == {r \in BroadcastReqs : r.mt \in MsgTypes /\ r.exclude = NoVal}

NoReq == [key |-> 0, exclude |-> NoVal, mt |-> NoVal]

Pkg(mid, key, status) == [pid |-> "PID_EXT", mid |-> mid, key |-> key, status |-> status]

NoPkg == [pid |-> NoVal, mid |-> NoVal, key |-> 0, status |-> NoVal]

\* ---------------------------------------------------------- helpers ----

\* m[k] = v of a Go map
Put(m, k, v) == [x \in DOMAIN m \cup {k} |-> IF x = k THEN v ELSE m[x]]

\* delete(m, k) of a Go map
Del(m, k) == [x \in DOMAIN m \ {k} |-> m[x]]

EmptyMap == [x \in {} |-> NoVal]

\* ------------------------------------------------------------ state ----

VARIABLES
  running,      \* the nodes on which a chain shell runs
  closed,       \* TRUE: the running nodes are wired to each other; FALSE: peers are the environment
  tmFaulty,     \* TRUE: StartTimer of the timer manager may return an error
  deDup,        \* ShellManager.deDup
  peerActived,  \* ShellManager.peerActived: peer -> [status, txChan, txDiscrd]
  deDupKeyMap,  \* ShellManager.deDupKeyMap (K): key -> timer
  deDupMap,     \* ShellManager.deDupMap (P): <<key, peer>> -> [bcReq, timer]
  tmDedup,      \* ShellManager.tmDedup: timer -> [cb, data, left, armed]
  deDupLock,    \* ShellManager.deDupLock: its owner
  peerLock,     \* ShellManager.peerLock: its owner
  sh,           \* the shell task: where it is in the handler of its current message
  rx,           \* the rx-worker of every peer: where it is in rxProc
  rxq,          \* closed system: frames under way to the rx-worker of a peer
  pcdCnt,       \* history: payload frames enqueued per <<key, peer>> since K[key] was inserted
  wire,         \* history, closed system: the frames that left a tx channel, in order
  bcl,          \* history, closed system: the broadcast requests handed in, in order
  skmc,         \* harness: callers of setKeyMap other than the shell task
  schTaskNodePool,   \* scheduler.schTaskNodePool: task node -> its task control block
  tkLink,            \* the last and next pointers of the task nodes
  tkFree,            \* scheduler.tkFree: head of the ring of free task nodes, or NilNode
  freeSize,          \* scheduler.freeSize
  tkBusy,            \* scheduler.tkBusy: head of the ring of busy task nodes, or NilNode
  busySize,          \* scheduler.busySize
  tkMap,             \* scheduler.tkMap: task name -> task node
  schTimerNodePool,  \* scheduler.schTimerNodePool: timer node -> its tmcb and its goroutine
  tmLink,            \* the last and next pointers of the timer nodes
  tmFree,            \* scheduler.tmFree
  tmFreeSize,        \* scheduler.tmFreeSize
  tmMap,             \* scheduler.tmMap: timer node -> task node
  sdlLock,           \* scheduler.lock: its owner
  dsp,               \* the goroutines running schCommonTask
  usr,               \* the goroutines of the callers of the scheduler
  panicked,          \* a goroutine ran into a Go run-time panic
  mbSent,            \* history: per task node, the messages whose send into the mailbox completed
  mbCalled,          \* history: per task node, the messages the entry function was invoked on
  nmsg,              \* history: the messages made so far
  boot               \* the goroutine that runs schSchedulerStart: where it is, and what it sent

\* The state of the scheduler.
schVars == <<schTaskNodePool, tkLink, tkFree, freeSize, tkBusy, busySize, tkMap,
             schTimerNodePool, tmLink, tmFree, tmFreeSize, tmMap, sdlLock,
             dsp, usr, panicked, mbSent, mbCalled, nmsg, boot>>

\* The state of the chain shell.
shVars == <<running, closed, tmFaulty, deDup, peerActived, deDupKeyMap, deDupMap, tmDedup,
            deDupLock, peerLock, sh, rx, rxq, pcdCnt, wire, bcl, skmc>>

vars == <<shVars, schVars>>

\* --------------------------------------------- dht.TimerManager ----

\* A handle the pool does not hold yet.
NewTimerId(tmm) == CHOOSE i \in 1..(Cardinality(DOMAIN tmm) + 1) : i \notin DOMAIN tmm

\* GetTimer(dur, nil, cb) followed by SetTimerData(tm, data): a timer in the pool, not armed.
TmGetTimer(tmm, id, dur, cb, data) == Put(tmm, id, [cb |-> cb, data |-> data, left |-> dur, armed |-> FALSE])

\* StartTimer(tm): the timer is armed.
TmStartTimer(tmm, id) == [tmm EXCEPT ![id].armed = TRUE]

\* KillTimer(tm): the timer leaves the pool, armed or not.
TmKillTimer(tmm, id) == Del(tmm, id)

\* The timers that expire in the TickProc to come.
TmExpiring(tmm) == {i \in DOMAIN tmm : tmm[i].armed /\ tmm[i].left <= 1}

\* The pool after TickProc: expired timers are gone, the others are one tick older.
TmTickProc(tmm) ==
  [i \in DOMAIN tmm \ TmExpiring(tmm) |->
     IF tmm[i].armed THEN [tmm[i] EXCEPT !.left = @ - 1] ELSE tmm[i]]

\* --------------------------------------------------- pieces of code ----

\* len(spi.txChan) >= cap(spi.txChan)
TxFull(pe) == Len(pe.txChan) >= TxCap

\* A discard that is not counted.
DiscardQuiet(pe) == pe

\* spi.txDiscrd += 1
Discard(pe) == [pe EXCEPT !.txDiscrd = @ + 1]

\* spi.txChan <- pkg
Enqueue(pe, pkg) == [pe EXCEPT !.txChan = Append(@, pkg)]

\* <-txChan in the peer instance
Dequeue(pe) == [pe EXCEPT !.txChan = Tail(@)]

\* A payload frame under another protocol id.
bcr2PackageInt(req) == [Pkg(req.mt, req.key, NoVal) EXCEPT !.pid = "PID_P2P"]

\* bcr2Package: Pid = uint32(peer.PID_EXT), Mid = uint32(req.MsgType), Key = req.Key
bcr2Package(req) == Pkg(req.mt, req.key, NoVal)

\* upkg.CheckKey(spi.pi, &chkk, false)
ChkkPkg(key) == Pkg("MID_CHKK", key, NoVal)

\* upkg.ReportKey(spi.pi, &rptk, false)
RptkPkg(key, status) == Pkg("MID_RPTK", key, status)

\* upkg.GetChainData(spi.pi, &gcd, false)
GcdPkg == Pkg("MID_GCD", 0, NoVal)

\* upkg.PutChainData(spi.pi, &pcd, false)
PcdPkg == Pkg("MID_PCD", 0, NoVal)

\* A test that finds no key in K.
checkKeyMapOk(K, k) == SKM_OK

\* checkKeyMap: the test of K under deDupKeyLock.
checkKeyMap(K, k) == IF k \in DOMAIN K THEN SKM_DUPLICATED ELSE SKM_OK

\* A test that finds no key in K.
SkmTestOk(K, k) == SKM_OK

\* setKeyMap, its first critical section: the test under deDupKeyLock.
SkmTest(K, k) == IF k \in DOMAIN K THEN SKM_DUPLICATED ELSE SKM_OK

\* setKeyMap: "if shMgr.tmDedup.StartTimer(tm); err != dht.TmEnoNone" tests the err
\* of GetTimer, which is TmEnoNone here, whatever StartTimer returned.
SkmStartFailed(startOk) == FALSE

\* checkKey: "if err := shMgr.tmDedup.StartTimer(tm); err != dht.TmEnoNone"
CkStartFailed(startOk) == ~startOk

\* The outcomes StartTimer may have.
StartOutcomes == IF tmFaulty THEN BOOLEAN ELSE {TRUE}

\* A loop that excludes no peer.
NotExcludedAny(req, p) == TRUE

\* broadcastReq: req.Exclude == nil || bytes.Compare(id.nodeId, req.Exclude) != 0
NotExcluded(req, p) == req.exclude = NoVal \/ req.exclude # p

\* ------------------------------------------------------ shell task ----

ShIdle == [pc |-> "idle", op |-> NoVal, peer |-> NoVal, req |-> NoReq, todo |-> {}, cur |-> NoVal,
           tm |-> 0, skm |-> NoVal, ck |-> NoVal, ret |-> NoVal, out |-> NoVal, ticked |-> FALSE]

\* The handler returns eno to the dispatcher of the task.
ShRet(s, eno) == [s EXCEPT !.pc = "ret", !.ret = eno, !.todo = {}, !.cur = NoVal, !.tm = 0]

RxNone == [pc |-> "none", pkg |-> NoPkg, st |-> NoVal, req |-> NoReq, ret |-> NoVal, fwd |-> FALSE,
           ticked |-> FALSE]

RxIdle == [RxNone EXCEPT !.pc = "idle"]

shellVars == <<deDupKeyMap, deDupMap, tmDedup, deDupLock, peerLock, peerActived, rx, rxq, pcdCnt, wire>>

cfgVars == <<running, closed, tmFaulty, deDup, skmc, bcl, schVars>>

\* No handler has just returned.  The step from a return back to the wait for the next
\* message (ShReturn, RxLoop) touches nothing shared; the model takes it before any
\* other step, so that a state shows the return of at most one handler.
Settled ==
  /\ \A n \in Nodes : sh[n].pc # "ret" /\ \A p \in Nodes : rx[n][p].pc # "ret"
  /\ \A c \in DOMAIN skmc : skmc[c].pc # "ret"

\* The shell task of n is at a channel send and the channel is full: the task waits.
ShWaits(n) == sh[n].pc \in {"chkk_send", "bcr_send"} /\ TxFull(peerActived[n][sh[n].cur])

\* The rx-worker of p is at a channel send and the channel is full: the worker waits.
RxWaits(n, p) == rx[n][p].pc \in {"rptk_send", "pcd_send"} /\ TxFull(peerActived[n][p])

\* A goroutine waits to send on the tx channel of p.
SenderWaits(n, p) == (ShWaits(n) /\ sh[n].cur = p) \/ RxWaits(n, p)

\* A send on the tx channel of p is enabled: there is room (woken = FALSE), or the sender
\* waits at the full channel and the peer instance receives (woken = TRUE; the receive
\* of Go hands the freed slot to the waiting sender).
CanSend(pe, woken) == IF woken THEN TxFull(pe) ELSE ~TxFull(pe)

\* The peer instance of p received the frame at the head of the tx channel: it is gone
\* (open system), or on its way to the rx-worker of the shell of p (closed system).
TxOut(n, p, took) ==
  IF took /\ closed
  THEN /\ rxq' = [rxq EXCEPT ![p][n] = Append(@, Head(peerActived[n][p].txChan))]
       /\ wire' = Append(wire, [from |-> n, to |-> p, pkg |-> Head(peerActived[n][p].txChan)])
  ELSE UNCHANGED <<rxq, wire>>

\* The channel the sender writes to: after the receive when the sender was waiting.
TxCh(pe, woken) == IF woken THEN Dequeue(pe) ELSE pe

\* broadcastReq up to the first critical section of setKeyMap.
ShBroadcastReq(n, req) ==
  /\ Settled /\ n \in running /\ sh[n].pc = "idle"
  /\ IF closed
     THEN req \in WiredReqs /\ Len(bcl) < MaxBcast /\ bcl' = Append(bcl, [node |-> n, req |-> req])
     ELSE UNCHANGED bcl
  /\ LET s == [ShIdle EXCEPT !.op = "broadcastReq", !.req = req] IN
     sh' = [sh EXCEPT ![n] =
              IF req.mt \notin MsgTypes THEN ShRet(s, SchEnoParameter)
              ELSE IF ~deDup[n] THEN [s EXCEPT !.pc = "bcr_loop", !.todo = DOMAIN peerActived[n]]
              ELSE IF SkmTest(deDupKeyMap[n], req.key) = SKM_DUPLICATED
                   THEN ShRet([s EXCEPT !.skm = SKM_DUPLICATED], SchEnoUserTask)
                   ELSE [s EXCEPT !.pc = "skm_timer"]]
  /\ UNCHANGED <<shellVars, running, closed, tmFaulty, deDup, skmc, schVars>>

\* setKeyMap, its critical section under deDupLock: GetTimer, SetTimerData, StartTimer.
\* tm is the timer to put into K, 0 when setKeyMap returns SKM_FAILED here.
SkmTimer(tmm, k, getOk, startOk) ==
  LET id == NewTimerId(tmm)
      t1 == TmGetTimer(tmm, id, KeyTicks, "deDupKeyCb", <<k, NoVal>>)
  IN IF ~getOk THEN [pool |-> tmm, tm |-> 0]
     ELSE IF SkmStartFailed(startOk) THEN [pool |-> t1, tm |-> 0]
     ELSE [pool |-> IF startOk THEN TmStartTimer(t1, id) ELSE t1, tm |-> id]

\* setKeyMap, its last critical section: shMgr.deDupKeyMap[*k] = tm
SkmInsert(K, k, tm) == Put(K, k, tm)

\* setKeyMap in the shell task, under deDupLock.
ShSkmTimer(n) ==
  /\ Settled /\ sh[n].pc = "skm_timer" /\ deDupLock[n] = NoLock
  /\ \E getOk \in BOOLEAN, startOk \in StartOutcomes :
       LET r == SkmTimer(tmDedup[n], sh[n].req.key, getOk, startOk) IN
         /\ tmDedup' = [tmDedup EXCEPT ![n] = r.pool]
         /\ sh' = [sh EXCEPT ![n] = IF r.tm = 0 THEN ShRet([@ EXCEPT !.skm = SKM_FAILED], SchEnoUserTask)
                                     ELSE [@ EXCEPT !.pc = "skm_insert", !.tm = r.tm]]
  /\ UNCHANGED <<deDupKeyMap, deDupMap, deDupLock, peerLock, peerActived, rx, rxq, pcdCnt, wire, cfgVars>>

\* setKeyMap returns SKM_OK; broadcastReq goes on to its loop over the peers.
ShSkmInsert(n) ==
  /\ Settled /\ sh[n].pc = "skm_insert"
  /\ deDupKeyMap' = [deDupKeyMap EXCEPT ![n] = SkmInsert(@, sh[n].req.key, sh[n].tm)]
  /\ pcdCnt' = [pcdCnt EXCEPT ![n] = [kp \in DOMAIN @ |-> IF kp[1] = sh[n].req.key THEN 0 ELSE @[kp]]]
  /\ sh' = [sh EXCEPT ![n].pc = "bcr_loop", ![n].skm = SKM_OK, ![n].tm = 0,
                       ![n].todo = DOMAIN peerActived[n]]
  /\ UNCHANGED <<deDupMap, tmDedup, deDupLock, peerLock, peerActived, rx, rxq, wire, cfgVars>>

\* A test that finds no entry in P.
CkDupNever(P, ddk) == FALSE

\* checkKey: "if _, dup := shMgr.deDupMap[ddk]; dup"
CkDup(P, ddk) == ddk \in DOMAIN P

\* checkKey under deDupLock up to the send of checkKey2Peer: the errno it returns with,
\* or NoVal when the CHKK is about to be written to the tx channel.
CheckKeyTest(n, p, req) ==
  IF p \notin DOMAIN peerActived[n] THEN SchEnoNotFound
  ELSE IF CkDup(deDupMap[n], <<req.key, p>>) THEN SchEnoDuplicated
  ELSE IF TxFull(peerActived[n][p]) THEN SchEnoUserTask
  ELSE NoVal

\* broadcastReq: one iteration of "for id, pe := range shMgr.peerActived", up to the
\* point where a frame is about to be written to the tx channel of the peer.
ShBcrPeer(n, p) ==
  LET pe == peerActived[n][p]
      req == sh[n].req
      next == [sh[n] EXCEPT !.todo = @ \ {p}]
  IN IF pe.status # pisActive \/ ~NotExcluded(req, p)
     THEN /\ sh' = [sh EXCEPT ![n] = next]
          /\ UNCHANGED <<peerActived, deDupLock>>
     ELSE IF ~deDup[n]
     THEN IF TxFull(pe)
          THEN /\ pe.txDiscrd < MaxDiscard
               /\ peerActived' = [peerActived EXCEPT ![n][p] = Discard(@)]
               /\ sh' = [sh EXCEPT ![n] = next]
               /\ UNCHANGED deDupLock
          ELSE /\ sh' = [sh EXCEPT ![n] = [next EXCEPT !.pc = "bcr_send", !.cur = p]]
               /\ UNCHANGED <<peerActived, deDupLock>>
     ELSE /\ deDupLock[n] = NoLock
          /\ LET eno == CheckKeyTest(n, p, req) IN
             IF eno = NoVal
             THEN /\ deDupLock' = [deDupLock EXCEPT ![n] = "sh"]
                  /\ sh' = [sh EXCEPT ![n] = [next EXCEPT !.pc = "chkk_send", !.cur = p, !.ck = NoVal]]
                  /\ UNCHANGED peerActived
             ELSE /\ sh' = [sh EXCEPT ![n] = [next EXCEPT !.ck = eno, !.peer = p]]
                  /\ IF eno = SchEnoUserTask
                     THEN /\ pe.txDiscrd < MaxDiscard
                          /\ peerActived' = [peerActived EXCEPT ![n][p] = Discard(@)]
                     ELSE UNCHANGED peerActived
                  /\ UNCHANGED deDupLock

ShBcrLoop(n) ==
  /\ Settled /\ sh[n].pc = "bcr_loop"
  /\ IF sh[n].todo = {}
     THEN /\ sh' = [sh EXCEPT ![n] = ShRet(@, SchEnoNone)]
          /\ UNCHANGED <<peerActived, deDupLock>>
     ELSE \E p \in sh[n].todo : ShBcrPeer(n, p)
  /\ UNCHANGED <<deDupKeyMap, deDupMap, tmDedup, peerLock, rx, rxq, pcdCnt, wire, cfgVars>>

\* checkKey from the channel send of checkKey2Peer to the end: the CHKK is written,
\* then GetTimer, SetTimerData, deDupMap[ddk] = &ddv, StartTimer, and deDupLock is released.
ShChkkSend(n, woken) ==
  /\ Settled /\ sh[n].pc = "chkk_send"
  /\ LET p == sh[n].cur
         req == sh[n].req
         ddk == <<req.key, p>>
     IN /\ CanSend(peerActived[n][p], woken)
        /\ TxOut(n, p, woken)
        /\ peerActived' = [peerActived EXCEPT ![n][p] = Enqueue(TxCh(@, woken), ChkkPkg(req.key))]
        /\ \E getOk \in BOOLEAN, startOk \in StartOutcomes :
             LET id == NewTimerId(tmDedup[n])
                 t1 == TmGetTimer(tmDedup[n], id, ChkkTicks, "deDupTimerCb", ddk)
             IN IF ~getOk
                THEN /\ sh' = [sh EXCEPT ![n].pc = "bcr_loop", ![n].cur = NoVal,
                                         ![n].ck = SchEnoUserTask, ![n].peer = p]
                     /\ UNCHANGED <<tmDedup, deDupMap>>
                ELSE /\ deDupMap' = [deDupMap EXCEPT ![n] = Put(@, ddk, [bcReq |-> req, timer |-> id])]
                     /\ tmDedup' = [tmDedup EXCEPT ![n] = IF startOk THEN TmStartTimer(t1, id) ELSE t1]
                     /\ sh' = [sh EXCEPT ![n].pc = "bcr_loop", ![n].cur = NoVal, ![n].peer = p,
                                         ![n].ck = IF CkStartFailed(startOk) THEN SchEnoUserTask ELSE SchEnoNone]
  /\ deDupLock' = [deDupLock EXCEPT ![n] = NoLock]
  /\ UNCHANGED <<deDupKeyMap, peerLock, rx, pcdCnt, cfgVars>>

\* send2Peer without deduplication, from its channel send on.
ShBcrSend(n, woken) ==
  /\ Settled /\ sh[n].pc = "bcr_send"
  /\ CanSend(peerActived[n][sh[n].cur], woken)
  /\ TxOut(n, sh[n].cur, woken)
  /\ peerActived' = [peerActived EXCEPT ![n][sh[n].cur] = Enqueue(TxCh(@, woken), bcr2Package(sh[n].req))]
  /\ sh' = [sh EXCEPT ![n].pc = "bcr_loop", ![n].cur = NoVal]
  /\ UNCHANGED <<deDupKeyMap, deDupMap, tmDedup, deDupLock, peerLock, rx, pcdCnt, cfgVars>>

\* The handler has returned; the dispatcher of the task waits for the next message.
ShReturn(n) ==
  /\ sh[n].pc = "ret"
  /\ sh' = [sh EXCEPT ![n] = ShIdle]
  /\ UNCHANGED <<shellVars, cfgVars>>

\* A one-step handler of the shell task: it returns eno, having sent out to the peer manager.
ShDone(n, op, p, eno, out) ==
  sh' = [sh EXCEPT ![n] = [ShRet(ShIdle, eno) EXCEPT !.op = op, !.peer = p, !.out = out]]

NewPeerInst == [status |-> pisActive, txChan |-> <<>>, txDiscrd |-> 0]

\* A test that finds no peer in the table.
PeerDupNever(pa, p) == FALSE

\* peerActiveInd: "if _, dup := shMgr.peerActived[peerId]; dup"
PeerDup(pa, p) == p \in DOMAIN pa

\* peerActiveInd: the peer is registered and its rx-worker (go rxProc()) is spawned,
\* unless the peer is in the table already.  The peer manager indicates a new instance of
\* a peer only when the rx channel of the instance before it has been closed.
ShPeerActiveInd(n, p) ==
  /\ Settled /\ n \in running /\ sh[n].pc = "idle" /\ peerLock[n] = NoLock
  /\ p \in Nodes \ running
  /\ IF PeerDup(peerActived[n], p)
     THEN /\ ShDone(n, "peerActiveInd", p, SchEnoUserTask, NoVal)
          /\ UNCHANGED <<peerActived, rx>>
     ELSE /\ rx[n][p].pc = "none"
          /\ peerActived' = [peerActived EXCEPT ![n] = Put(@, p, NewPeerInst)]
          /\ rx' = [rx EXCEPT ![n][p] = RxIdle]
          /\ ShDone(n, "peerActiveInd", p, SchEnoNone, NoVal)
  /\ UNCHANGED <<deDupKeyMap, deDupMap, tmDedup, deDupLock, peerLock, rxq, pcdCnt, wire, cfgVars>>

\* A confirmation that removes the peer whatever its status.
peerCloseCfmAny(pa, p) ==
  IF p \notin DOMAIN pa THEN [eno |-> SchEnoNotFound, pa |-> pa]
  ELSE [eno |-> SchEnoNone, pa |-> Del(pa, p)]

peerCloseCfm(pa, p) ==
  IF p \notin DOMAIN pa THEN [eno |-> SchEnoNotFound, pa |-> pa]
  ELSE IF pa[p].status # pisClosing THEN [eno |-> SchEnoMismatched, pa |-> pa]
  ELSE [eno |-> SchEnoNone, pa |-> Del(pa, p)]

ShPeerCloseCfm(n, p) ==
  /\ Settled /\ n \in running /\ sh[n].pc = "idle" /\ peerLock[n] = NoLock
  /\ p \in Nodes \ running
  /\ LET r == peerCloseCfm(peerActived[n], p) IN
       /\ peerActived' = [peerActived EXCEPT ![n] = r.pa]
       /\ ShDone(n, "peerCloseCfm", p, r.eno, NoVal)
  /\ UNCHANGED <<deDupKeyMap, deDupMap, tmDedup, deDupLock, peerLock, rx, rxq, pcdCnt, wire, cfgVars>>

\* peerAskToCloseInd; out is the EvPeCloseReq sent to the peer manager.
peerAskToCloseInd(pa, p) ==
  IF p \notin DOMAIN pa THEN [eno |-> SchEnoNotFound, pa |-> pa, out |-> NoVal]
  ELSE IF pa[p].status # pisActive THEN [eno |-> SchEnoMismatched, pa |-> pa, out |-> NoVal]
  ELSE [eno |-> SchEnoNone, pa |-> [pa EXCEPT ![p].status = pisClosing], out |-> "EvPeCloseReq"]

ShPeerAskToCloseInd(n, p) ==
  /\ Settled /\ n \in running /\ sh[n].pc = "idle" /\ peerLock[n] = NoLock
  /\ p \in Nodes \ running
  /\ LET r == peerAskToCloseInd(peerActived[n], p) IN
       /\ peerActived' = [peerActived EXCEPT ![n] = r.pa]
       /\ ShDone(n, "peerAskToCloseInd", p, r.eno, r.out)
  /\ UNCHANGED <<deDupKeyMap, deDupMap, tmDedup, deDupLock, peerLock, rx, rxq, pcdCnt, wire, cfgVars>>

\* getChainInfoReq: "if pe.status == pisActive" before getChainData2Peer
GciTargets(pa) == {p \in DOMAIN pa : pa[p].status = pisActive}

\* getChainInfoReq, under peerLock from start to end: nothing else writes to a tx channel
\* meanwhile, so that no send of getChainData2Peer waits.
ShGetChainInfoReq(n) ==
  /\ Settled /\ n \in running /\ sh[n].pc = "idle" /\ peerLock[n] = NoLock
  /\ LET pa == peerActived[n]
         full == {p \in GciTargets(pa) : TxFull(pa[p])}
         failCount == Cardinality(full)
     IN /\ \A p \in full : pa[p].txDiscrd < MaxDiscard
        /\ peerActived' = [peerActived EXCEPT ![n] =
              [p \in DOMAIN pa |-> IF p \in full THEN Discard(pa[p])
                                   ELSE IF p \in GciTargets(pa) THEN Enqueue(pa[p], GcdPkg)
                                   ELSE pa[p]]]
        /\ ShDone(n, "getChainInfoReq", NoVal,
                  IF failCount = Cardinality(DOMAIN pa) THEN SchEnoResource ELSE SchEnoNone, NoVal)
  /\ UNCHANGED <<deDupKeyMap, deDupMap, tmDedup, deDupLock, peerLock, rx, rxq, pcdCnt, wire, cfgVars>>

\* getChainInfoRsp: "if !ok || pai == nil"; the status of the peer is not looked at.
GcrTarget(pa, p) == p \in DOMAIN pa

\* getChainInfoRsp with putChainData2Peer, under peerLock from start to end.
ShGetChainInfoRsp(n, p) ==
  /\ Settled /\ n \in running /\ sh[n].pc = "idle" /\ peerLock[n] = NoLock
  /\ p \in Nodes \ {n}
  /\ LET pa == peerActived[n] IN
       IF ~GcrTarget(pa, p)
       THEN /\ ShDone(n, "getChainInfoRsp", p, SchEnoNotFound, NoVal)
            /\ UNCHANGED peerActived
       ELSE IF TxFull(pa[p])
       THEN /\ pa[p].txDiscrd < MaxDiscard
            /\ peerActived' = [peerActived EXCEPT ![n][p] = Discard(@)]
            /\ ShDone(n, "getChainInfoRsp", p, SchEnoResource, NoVal)
       ELSE /\ peerActived' = [peerActived EXCEPT ![n][p] = Enqueue(@, PcdPkg)]
            /\ ShDone(n, "getChainInfoRsp", p, SchEnoNone, NoVal)
  /\ UNCHANGED <<deDupKeyMap, deDupMap, tmDedup, deDupLock, peerLock, rx, rxq, pcdCnt, wire, cfgVars>>

\* ------------------------------------------------------- rx-worker ----

\* The frames a peer of the environment may send: CHKK and RPTK (well formed, or such that
\* GetExtMessage fails), GCD, PCD and a broadcast payload.
EnvPkgs ==
  {ChkkPkg(k) : k \in Keys} \cup {RptkPkg(k, st) : k \in Keys, st \in {KS_EXIST, KS_NOTEXIST}}
    \cup {Pkg(mid, k, "malformed") : mid \in {"MID_CHKK", "MID_RPTK"}, k \in Keys}
    \cup {GcdPkg, PcdPkg} \cup {Pkg(mt, k, NoVal) : mt \in MsgTypes, k \in Keys}

\* upkg.GetExtMessage(&msg) succeeds and msg.Mid is the message id of the frame.
Decodes(pkg) == pkg.status # "malformed"

\* rxProc is back at its select; ret is what the handler of the frame returned and fwd
\* whether the frame was written to shMgr.rxChan.
RxRet(r, eno, fwd) == [RxIdle EXCEPT !.pc = "ret", !.pkg = r.pkg, !.ret = eno, !.fwd = fwd]

\* A test of the sender that does not look at its status.
PeerInTable(pa, p) == p \in DOMAIN pa

\* checkKeyFromPeer: or getChainDataFromPeer, reportKeyFromPeer: the sender is in the table and active
PeerIsActive(pa, p) == p \in DOMAIN pa /\ pa[p].status = pisActive

\* A responder that reports no key as held.
KeyStatusNone(K, key) == KS_NOTEXIST

\* A responder that reports every key as held.
KeyStatusExist(K, key) == KS_EXIST

\* checkKeyFromPeer: the status reported for key, looked up in K under deDupKeyLock.
KeyStatus(K, key) == IF key \in DOMAIN K THEN KS_EXIST ELSE KS_NOTEXIST

\* checkKeyFromPeer up to the channel send of reportKey2Peer.
RxChkk(n, p, pkg) ==
  LET r == [rx[n][p] EXCEPT !.pkg = pkg] IN
  IF ~Decodes(pkg)
  THEN /\ rx' = [rx EXCEPT ![n][p] = RxRet(r, SchEnoUserTask, FALSE)]
       /\ UNCHANGED <<peerLock, peerActived>>
  ELSE /\ peerLock[n] = NoLock
       /\ IF ~PeerIsActive(peerActived[n], p)
          THEN /\ rx' = [rx EXCEPT ![n][p] = RxRet(r, SchEnoNotFound, FALSE)]
               /\ UNCHANGED <<peerLock, peerActived>>
          ELSE IF TxFull(peerActived[n][p])
          THEN /\ peerActived[n][p].txDiscrd < MaxDiscard
               /\ peerActived' = [peerActived EXCEPT ![n][p] = Discard(@)]
               /\ rx' = [rx EXCEPT ![n][p] = [RxRet(r, SchEnoUserTask, FALSE) EXCEPT
                                                 !.st = KeyStatus(deDupKeyMap[n], pkg.key)]]
               /\ UNCHANGED peerLock
          ELSE /\ rx' = [rx EXCEPT ![n][p] = [r EXCEPT !.pc = "rptk_send",
                                                       !.st = KeyStatus(deDupKeyMap[n], pkg.key)]]
               /\ peerLock' = [peerLock EXCEPT ![n] = p]
               /\ UNCHANGED peerActived

\* reportKey2Peer: the frame written in reply by the rx-worker of peer p, and the tx channel.
RptkReply(p, r) == [to |-> p, pkg |-> RptkPkg(r.pkg.key, r.st)]

\* reportKey2Peer from its channel send on; checkKeyFromPeer returns and releases peerLock.
RxRptkSend(n, p, woken) ==
  /\ Settled /\ rx[n][p].pc = "rptk_send"
  /\ LET rp == RptkReply(p, rx[n][p]) IN
       /\ CanSend(peerActived[n][rp.to], woken)
       /\ TxOut(n, rp.to, woken)
       /\ peerActived' = [peerActived EXCEPT ![n][rp.to] = Enqueue(TxCh(@, woken), rp.pkg)]
  /\ peerLock' = [peerLock EXCEPT ![n] = NoLock]
  /\ rx' = [rx EXCEPT ![n][p] = [RxRet(@, SchEnoNone, FALSE) EXCEPT !.st = rx[n][p].st]]
  /\ UNCHANGED <<deDupKeyMap, deDupMap, tmDedup, deDupLock, pcdCnt, sh, cfgVars>>

\* reportKeyFromPeer up to "shMgr.deDupLock.Lock()": peerLock is taken and kept.
RxRptk(n, p, pkg) ==
  LET r == [rx[n][p] EXCEPT !.pkg = pkg] IN
  IF ~Decodes(pkg)
  THEN /\ rx' = [rx EXCEPT ![n][p] = RxRet(r, SchEnoUserTask, FALSE)]
       /\ UNCHANGED <<peerLock, peerActived>>
  ELSE /\ peerLock[n] = NoLock
       /\ UNCHANGED peerActived
       /\ IF ~PeerIsActive(peerActived[n], p)
          THEN /\ rx' = [rx EXCEPT ![n][p] = RxRet(r, SchEnoNotFound, FALSE)]
               /\ UNCHANGED peerLock
          ELSE /\ rx' = [rx EXCEPT ![n][p] = [r EXCEPT !.pc = "rptk_dedup"]]
               /\ peerLock' = [peerLock EXCEPT ![n] = p]

\* reportKeyFromPeer without its delete: the entry stays in P.
RptkKeep(P, ddk) == P

\* reportKeyFromPeer: "delete(shMgr.deDupMap, ddk)"
RptkClear(P, ddk) == Del(P, ddk)

\* A report that is taken to ask for the payload whatever its status.
RptkWantsAlways(pkg) == TRUE

\* reportKeyFromPeer: "if msg.Rptk.Status == int32(peer.KS_NOTEXIST)"
RptkWantsPayload(pkg) == pkg.status = KS_NOTEXIST

\* reportKeyFromPeer under deDupLock, then up to the channel send of send2Peer.
RxRptkDedup(n, p) ==
  /\ Settled /\ rx[n][p].pc = "rptk_dedup" /\ deDupLock[n] = NoLock
  /\ LET r == rx[n][p]
         ddk == <<r.pkg.key, p>>
         P == deDupMap[n]
     IN IF ddk \notin DOMAIN P
        THEN /\ rx' = [rx EXCEPT ![n][p] = RxRet(r, SchEnoNotFound, FALSE)]
             /\ peerLock' = [peerLock EXCEPT ![n] = NoLock]
             /\ UNCHANGED <<deDupMap, tmDedup, peerActived>>
        ELSE /\ tmDedup' = [tmDedup EXCEPT ![n] = TmKillTimer(@, P[ddk].timer)]
             /\ deDupMap' = [deDupMap EXCEPT ![n] = RptkClear(@, ddk)]
             /\ IF ~RptkWantsPayload(r.pkg)
                THEN /\ rx' = [rx EXCEPT ![n][p] = RxRet(r, SchEnoNone, FALSE)]
                     /\ peerLock' = [peerLock EXCEPT ![n] = NoLock]
                     /\ UNCHANGED peerActived
                ELSE IF TxFull(peerActived[n][p])
                THEN /\ peerActived[n][p].txDiscrd < MaxDiscard
                     /\ peerActived' = [peerActived EXCEPT ![n][p] = Discard(@)]
                     /\ rx' = [rx EXCEPT ![n][p] = RxRet(r, SchEnoResource, FALSE)]
                     /\ peerLock' = [peerLock EXCEPT ![n] = NoLock]
                ELSE /\ rx' = [rx EXCEPT ![n][p] = [r EXCEPT !.pc = "pcd_send", !.req = P[ddk].bcReq]]
                     /\ UNCHANGED <<peerLock, peerActived>>
  /\ UNCHANGED <<deDupKeyMap, deDupLock, rxq, pcdCnt, wire, sh, cfgVars>>

\* send2Peer from its channel send on; reportKeyFromPeer returns and releases peerLock.
RxPcdSend(n, p, woken) ==
  /\ Settled /\ rx[n][p].pc = "pcd_send"
  /\ CanSend(peerActived[n][p], woken)
  /\ TxOut(n, p, woken)
  /\ peerActived' = [peerActived EXCEPT ![n][p] = Enqueue(TxCh(@, woken), bcr2Package(rx[n][p].req))]
  /\ pcdCnt' = [pcdCnt EXCEPT ![n][<<rx[n][p].req.key, p>>] = @ + 1]
  /\ peerLock' = [peerLock EXCEPT ![n] = NoLock]
  /\ rx' = [rx EXCEPT ![n][p] = RxRet(@, SchEnoNone, FALSE)]
  /\ UNCHANGED <<deDupKeyMap, deDupMap, tmDedup, deDupLock, sh, cfgVars>>

\* rxProc after CHKK and RPTK: GCD (getChainDataFromPeer, under peerLock), PCD
\* (putChainDataFromPeer) and, for every other message id, checkKeyMap.
RxOther(n, p, pkg) ==
  LET r == [rx[n][p] EXCEPT !.pkg = pkg] IN
  /\ UNCHANGED <<peerLock, peerActived>>
  /\ IF pkg.mid = "MID_GCD"
     THEN /\ peerLock[n] = NoLock
          /\ rx' = [rx EXCEPT ![n][p] = IF PeerIsActive(peerActived[n], p)
                                         THEN RxRet(r, SchEnoNone, TRUE)
                                         ELSE RxRet(r, SchEnoNotFound, FALSE)]
     ELSE IF pkg.mid = "MID_PCD"
     THEN rx' = [rx EXCEPT ![n][p] = RxRet(r, SchEnoNone, TRUE)]
     ELSE rx' = [rx EXCEPT ![n][p] =
                   [RxRet(r, NoVal, checkKeyMap(deDupKeyMap[n], pkg.key) = SKM_OK)
                      EXCEPT !.st = checkKeyMap(deDupKeyMap[n], pkg.key)]]

\* rxProc: one frame from peerInst.rxChan, up to the first point where its handler may wait.
RxDispatch(n, p, pkg) ==
  IF ~deDup[n]
  THEN /\ rx' = [rx EXCEPT ![n][p] = RxRet([@ EXCEPT !.pkg = pkg], NoVal, TRUE)]
       /\ UNCHANGED <<peerLock, peerActived>>
  ELSE IF pkg.mid = "MID_CHKK" THEN RxChkk(n, p, pkg)
  ELSE IF pkg.mid = "MID_RPTK" THEN RxRptk(n, p, pkg)
  ELSE RxOther(n, p, pkg)

\* The next frame is one a peer of the environment sends (open system) or the next one
\* under way from the peer (closed system).
RxProc(n, p) ==
  /\ Settled /\ rx[n][p].pc = "idle"
  /\ IF closed
     THEN /\ rxq[n][p] # <<>>
          /\ rxq' = [rxq EXCEPT ![n][p] = Tail(@)]
          /\ RxDispatch(n, p, Head(rxq[n][p]))
     ELSE /\ UNCHANGED rxq
          /\ \E pkg \in EnvPkgs : RxDispatch(n, p, pkg)
  /\ UNCHANGED <<deDupKeyMap, deDupMap, tmDedup, deDupLock, pcdCnt, wire, sh, cfgVars>>

\* rxProc is at its select again.
RxLoop(n, p) ==
  /\ rx[n][p].pc = "ret"
  /\ rx' = [rx EXCEPT ![n][p] = RxIdle]
  /\ UNCHANGED <<deDupKeyMap, deDupMap, tmDedup, deDupLock, peerLock, peerActived, rxq, pcdCnt, wire,
                 sh, cfgVars>>

\* The peer instance closes peerInst.rxChan: rxProc returns.
RxClose(n, p) ==
  /\ Settled /\ rx[n][p].pc = "idle"
  /\ rx' = [rx EXCEPT ![n][p] = RxNone]
  /\ UNCHANGED <<deDupKeyMap, deDupMap, tmDedup, deDupLock, peerLock, peerActived, rxq, pcdCnt, wire,
                 sh, cfgVars>>

\* ----------------------------------------------- the peer instances ----

\* The peer instance receives the next frame of its tx channel, no sender waiting there.
TxDrain(n, p) ==
  /\ Settled /\ p \in DOMAIN peerActived[n] /\ peerActived[n][p].txChan # <<>>
  /\ ~SenderWaits(n, p)
  /\ TxOut(n, p, TRUE)
  /\ peerActived' = [peerActived EXCEPT ![n][p] = Dequeue(@)]
  /\ UNCHANGED <<deDupKeyMap, deDupMap, tmDedup, deDupLock, peerLock, rx, pcdCnt, sh, cfgVars>>

\* -------------------------------------- the deduplication tick goroutine ----

\* deDupTimerCb for the timers that expire in one TickProc; ddks are their data.
deDupTimerCb(P, ddks) == [ddk \in DOMAIN P \ ddks |-> P[ddk]]

\* A key callback that leaves K as it is.
deDupKeyCbKeep(K, ks) == K

\* deDupKeyCb for the timers that expire in one TickProc; ks are their data.
deDupKeyCb(K, ks) == [k \in DOMAIN K \ ks |-> K[k]]

\* Callbacks that lock deDupLock themselves.
CbLocksDedup(cb) == {"deDupLock"}

\* The locks a callback of a timer takes: deDupKeyCb locks deDupKeyLock, deDupTimerCb none.
CbLocks(cb) == IF cb = "deDupKeyCb" THEN {"deDupKeyLock"} ELSE {}

BcrPcs == {"skm_timer", "skm_insert", "bcr_loop", "chkk_send", "bcr_send"}

RxPcs == {"rptk_send", "rptk_dedup", "pcd_send"}

\* The goroutine has seen a tick since its handler began and is not waiting at a channel.
ShLate(n) == sh[n].pc \in BcrPcs /\ sh[n].ticked /\ ~ShWaits(n)

RxLate(n, p) == rx[n][p].pc \in RxPcs /\ rx[n][p].ticked /\ ~RxWaits(n, p)

\* startDedup: deDupLock.Lock(); tmDedup.TickProc(); deDupLock.Unlock().  A handler that
\* does not wait at a channel is over before the second tick after its begin.  TickProc
\* calls the callbacks of the timers that expire: one that locked deDupLock, which the
\* goroutine has, would wait for ever.
Tick(n) ==
  /\ Settled /\ n \in running /\ deDup[n] /\ deDupLock[n] = NoLock
  /\ ~ShLate(n) /\ \A p \in Nodes : ~RxLate(n, p)
  /\ \A j \in TmExpiring(tmDedup[n]) : "deDupLock" \notin CbLocks(tmDedup[n][j].cb)
  /\ LET tmm == tmDedup[n]
         exp == TmExpiring(tmm)
     IN /\ deDupMap' = [deDupMap EXCEPT ![n] =
                          deDupTimerCb(@, {tmm[i].data : i \in {j \in exp : tmm[j].cb = "deDupTimerCb"}})]
        /\ deDupKeyMap' = [deDupKeyMap EXCEPT ![n] =
                          deDupKeyCb(@, {tmm[i].data[1] : i \in {j \in exp : tmm[j].cb = "deDupKeyCb"}})]
        /\ tmDedup' = [tmDedup EXCEPT ![n] = TmTickProc(tmm)]
  /\ sh' = [sh EXCEPT ![n].ticked = (sh[n].pc \in BcrPcs)]
  /\ rx' = [rx EXCEPT ![n] = [p \in Nodes |-> [rx[n][p] EXCEPT !.ticked = (rx[n][p].pc \in RxPcs)]]]
  /\ UNCHANGED <<deDupLock, peerLock, peerActived, rxq, pcdCnt, wire, cfgVars>>

\* ======================================================== scheduler ====
\* p2p/scheduler/schimpl.go: the pools of task nodes and timer nodes, the name registry,
\* the timer index, the goroutines of schCommonTask and schTimerCommonTask, and the
\* goroutines that call the scheduler.

\* schTaskNodePoolSize, schTimerNodePoolSize and schMaxTaskTimer, scaled down.
schTaskNodePoolSize == 2

schTimerNodePoolSize == 2

schMaxTaskTimer == 2

\* taskDesc.MbSize, the capacity of a mailbox.
MbSize == 1

\* The messages sent by the callers, in all.
MaxMsg == 2

\* The times a task node is set up by schCreateTask, and a timer node by schSetTimer.
MaxEpoch == 1

\* The events a timer sends.
MaxTick == 1

\* The goroutines of schCommonTask that exist at a time.
MaxDsp == 2

\* The longest static task table handed to schSchedulerStart.
MaxStatic == 2

\* The longest list of names handed to schSchedulerStart.
MaxPowerOn == 2

TaskNodes == 1..schTaskNodePoolSize

TimerNodes == 1..schTimerNodePoolSize

TmSlots == 0..(schMaxTaskTimer - 1)

DspIds == 1..MaxDsp

Users == {"u1", "u2"}

TaskNames == {"tsk"}

\* A nil pointer to a node.
NilNode == 0

\* No channel evaluated yet by a goroutine at a channel operation.
NoEp == -1

SchCreatedGo == "SchCreatedGo"

SchCreatedSuspend == "SchCreatedSuspend"

SchEnoInternal == "SchEnoInternal"

SchEnoSuspended == "SchEnoSuspended"

SchEnoKilled == "SchEnoKilled"

SchEnoPowerOff == "SchEnoPowerOff"

schTmTypePeriod == "schTmTypePeriod"

schTmTypeAbsolute == "schTmTypeAbsolute"

schTmTypeNull == "schTmTypeNull"

\* A nil channel, and a channel as make(chan ...) returns it.
NilChan == [open |-> FALSE, buf |-> <<>>]

MakeChan == [open |-> TRUE, buf |-> <<>>]

ChPut(c, v) == [c EXCEPT !.buf = Append(@, v)]

ChGet(c) == [c EXCEPT !.buf = Tail(@)]

\* A channel a goroutine evaluated when the node was in epoch w is the one the field holds
\* now, or it has been closed since (schTcbClean closes the channels of a task and nils the
\* fields, schCreateTask makes new ones).
ChLive(c, ep, w) == c.open /\ (w = NoEp \/ w = ep)

\* A send "ch <- v" by a goroutine that evaluated ch in epoch w, or not yet (NoEp):
\* "nil" blocks for ever, "ok" completes, "block" finds the buffer full, "panic" is a
\* send on a closed channel.
SendTry(c, cap, ep, w) ==
  IF w = NoEp /\ ~c.open THEN "nil"
  ELSE IF ~ChLive(c, ep, w) THEN "panic"
  ELSE IF Len(c.buf) < cap THEN "ok" ELSE "block"

\* A receive "<-ch": "nil" blocks for ever, "ok" takes the head of the buffer, "block"
\* finds it empty, "zero" is the receive on a closed channel.
RecvTry(c, ep, w) ==
  IF w = NoEp /\ ~c.open THEN "nil"
  ELSE IF ~ChLive(c, ep, w) THEN "zero"
  ELSE IF c.buf # <<>> THEN "ok" ELSE "block"

\* A task control block nothing has been written to, and one schTcbClean has reset.
TaskZero ==
  [name |-> "", utep |-> FALSE, goStatus |-> NoVal, que |-> NilChan, done |-> NilChan,
   stopped |-> NilChan, tmTab |-> [i \in TmSlots |-> NilNode], lock |-> <<>>, epoch |-> 0]

\* A timer node without timer: tmcb and the goroutine of schTimerCommonTask; kind is the
\* type the timer was set with and sent the number of the events it has sent.
TimerZero ==
  [tmt |-> schTmTypeNull, dur |-> 0, utid |-> 0, extra |-> NoVal, taskNode |-> NilNode, tid |-> 0,
   stop |-> NilChan, stopped |-> FALSE, pc |-> "none", kind |-> schTmTypeNull, sent |-> 0,
   epoch |-> 0]

\* EvTimerBase, of which the value is not in the source files at hand.
EvTimerBase == 1000

\* The identity of the messages the callers send.
EvUser == 1

\* EvSchPoweron, of which the value is not in the source files at hand.
EvSchPoweron == 2

\* The zero value of a message; id is the number of the message in the order of the sends
\* its mailbox accepted, Id and Body are the fields of schMessage.
NoMsg == [id |-> 0, Id |-> 0, Body |-> NoVal]

\* The timer descriptions the entry function of a task passes to schSetTimer: the types,
\* one of them unknown to the scheduler, with a duration that is positive or not.
TimerDescs ==
  {[Tmt |-> tmt, Dur |-> dur, Utid |-> ue[1], Extra |-> ue[2]] :
     tmt \in {schTmTypePeriod, schTmTypeAbsolute, "schTmTypeOther"}, dur \in {0, 1},
     ue \in {<<1, "extra1">>, <<2, "extra2">>}}

\* The pointers of a node that is alone in its ring.
SelfLink(n) == [last |-> n, next |-> n]

\* The ring schSchedulerInit builds over a pool of n nodes.
InitRing(n) == [i \in 1..n |-> [last |-> IF i = 1 THEN n ELSE i - 1, next |-> IF i = n THEN 1 ELSE i + 1]]

\* The nodes of the ring of which head is the head.
Ring(L, head) ==
  IF head = NilNode THEN {}
  ELSE LET F[i \in 0..Cardinality(DOMAIN L)] ==
             IF i = 0 THEN {head} ELSE F[i - 1] \cup {L[x].next : x \in F[i - 1]}
       IN F[Cardinality(DOMAIN L)]

\* schGetTaskNode, under sdl.lock.
schGetTaskNode(L, free, size) ==
  IF free = NilNode
  THEN [eno |-> SchEnoResource, ptn |-> NilNode, link |-> L, head |-> free, size |-> size]
  ELSE IF L[free].last = free /\ L[free].next = free
  THEN IF size - 1 # 0
       THEN [eno |-> SchEnoInternal, ptn |-> NilNode, link |-> L, head |-> NilNode, size |-> size - 1]
       ELSE [eno |-> SchEnoNone, ptn |-> free, link |-> L, head |-> NilNode, size |-> size - 1]
  ELSE LET last == L[free].last
           next == L[free].next
           L1 == [L EXCEPT ![next].last = last]
           L2 == [L1 EXCEPT ![last].next = next]
       IN IF size - 1 <= 0
          THEN [eno |-> SchEnoInternal, ptn |-> NilNode, link |-> L2, head |-> next, size |-> size - 1]
          ELSE [eno |-> SchEnoNone, ptn |-> free, link |-> [L2 EXCEPT ![free] = SelfLink(free)],
                head |-> next, size |-> size - 1]

\* schGetTimerNode, under sdl.lock.
schGetTimerNode(L, free, size) ==
  IF free = NilNode
  THEN [eno |-> SchEnoResource, ptm |-> NilNode, link |-> L, head |-> free, size |-> size]
  ELSE IF L[free].last = free /\ L[free].next = free
  THEN IF size - 1 # 0
       THEN [eno |-> SchEnoInternal, ptm |-> NilNode, link |-> L, head |-> free, size |-> size]
       ELSE [eno |-> SchEnoNone, ptm |-> free, link |-> L, head |-> NilNode, size |-> size - 1]
  ELSE IF size - 1 <= 0
  THEN [eno |-> SchEnoInternal, ptm |-> NilNode, link |-> L, head |-> free, size |-> size]
  ELSE LET last == L[free].last
           next == L[free].next
           L1 == [L EXCEPT ![next].last = last]
           L2 == [L1 EXCEPT ![last].next = next]
       IN [eno |-> SchEnoNone, ptm |-> free, link |-> [L2 EXCEPT ![free] = SelfLink(free)],
           head |-> next, size |-> size - 1]

\* A node enters a ring before its head and becomes the head: the body that
\* schRetTaskNode, schRetTimerNode and schTaskBusyEnque share.
RingPush(L, head, ptn) ==
  IF head = NilNode THEN [L EXCEPT ![ptn] = SelfLink(ptn)]
  ELSE LET last == L[head].last
           L1 == [L EXCEPT ![ptn].last = last]
           L2 == [L1 EXCEPT ![last].next = ptn]
           L3 == [L2 EXCEPT ![ptn].next = head]
       IN [L3 EXCEPT ![head].last = ptn]

\* schTaskBusyDeque, under sdl.lock.
schTaskBusyDeque(L, busy, size, ptn) ==
  IF size <= 0 THEN [eno |-> SchEnoInternal, link |-> L, head |-> busy, size |-> size]
  ELSE IF size = 1
  THEN IF busy # ptn THEN [eno |-> SchEnoInternal, link |-> L, head |-> busy, size |-> size]
       ELSE [eno |-> SchEnoNone, link |-> L, head |-> NilNode, size |-> 0]
  ELSE IF L[ptn].last = ptn /\ L[ptn].next = ptn
  THEN IF ptn # busy THEN [eno |-> SchEnoInternal, link |-> L, head |-> busy, size |-> size]
       ELSE [eno |-> IF size - 1 # 0 THEN SchEnoInternal ELSE SchEnoNone,
             link |-> L, head |-> NilNode, size |-> size - 1]
  ELSE LET last == L[ptn].last
           next == L[ptn].next
           L1 == [L EXCEPT ![last].next = next]
           L2 == [L1 EXCEPT ![next].last = last]
       IN [eno |-> IF size - 1 <= 0 THEN SchEnoInternal ELSE SchEnoNone,
           link |-> L2, head |-> IF busy = ptn THEN next ELSE busy, size |-> size - 1]

\* No goroutine holds the lock (sdl.lock, or the lock of a task control block).
NoOwner == <<>>

\* A channel operand a select found nil.
NilEp == -2

\* A goroutine that calls the scheduler, between two calls.
UsrIdle == [pc |-> "idle", op |-> NoVal, name |-> "", ptn |-> NilNode, flag |-> NoVal, eno |-> NoVal, w |-> NoEp]

\* No goroutine of schCommonTask.
DspNone ==
  [pc |-> "none", ptn |-> NilNode, ep |-> 0, wd |-> NilEp, msg |-> NoMsg, eno |-> NoVal,
   did |-> FALSE, hop |-> NoVal, hret |-> NoVal, w |-> NoEp, tm |-> NilNode, tep |-> 0, tid |-> 0]

\* schSchedulerStart has not been called.
BootOff ==
  [pc |-> "off", tsd |-> <<>>, tpo |-> <<>>, loop |-> 0, ptn |-> NilNode, eno |-> NoVal,
   name2PtnMap |-> <<>>, made |-> <<>>, found |-> <<>>, sent |-> <<>>]

\* The state schSchedulerInit leaves.
InitSch ==
  /\ schTaskNodePool = [n \in TaskNodes |-> TaskZero]
  /\ tkLink = InitRing(schTaskNodePoolSize)
  /\ tkFree = 1
  /\ freeSize = schTaskNodePoolSize
  /\ tkBusy = NilNode
  /\ busySize = 0
  /\ tkMap = <<>>
  /\ schTimerNodePool = [t \in TimerNodes |-> TimerZero]
  /\ tmLink = InitRing(schTimerNodePoolSize)
  /\ tmFree = 1
  /\ tmFreeSize = schTimerNodePoolSize
  /\ tmMap = <<>>
  /\ sdlLock = NoOwner
  /\ dsp = [d \in DspIds |-> DspNone]
  /\ usr = [u \in Users |-> UsrIdle]
  /\ panicked = FALSE
  /\ mbSent = [n \in TaskNodes |-> 0]
  /\ mbCalled = [n \in TaskNodes |-> 0]
  /\ nmsg = 0
  /\ boot = BootOff

tkRingVars == <<tkLink, tkFree, freeSize, tkBusy, busySize>>

tmRingVars == <<tmLink, tmFree, tmFreeSize>>

tmVars == <<schTimerNodePool, tmRingVars, tmMap>>

histVars == <<mbSent, mbCalled, nmsg>>

\* The process has not panicked and sdl.lock is free: a section under sdl.lock is one step.
SdlFree == ~panicked /\ sdlLock = NoOwner

\* A call of the scheduler returns to its caller, which keeps the result until its next
\* call; the node it got it keeps where it uses it, in schSchedulerStart.
UsrRet(s, eno, ptn) ==
  [UsrIdle EXCEPT !.eno = eno, !.ptn = IF boot.pc = "off" THEN NilNode ELSE ptn]

\* The goroutine slot the go statement takes.
FreeDsp == CHOOSE d \in DspIds : dsp[d].pc = "none" /\ \A e \in DspIds : dsp[e].pc = "none" => d <= e

\* go sdl.schCommonTask(ptn)
GoCommonTask(D, d, ptn) == [D EXCEPT ![d] = [DspNone EXCEPT !.pc = "begin", !.ptn = ptn]]

\* ---- schCreateTask ----

\* schCreateTask: a node from the free ring, and the control block set up from the
\* description.
schCreateTask(u, name, flag) ==
  /\ SdlFree /\ usr[u].pc = "idle"
  /\ tkFree # NilNode => schTaskNodePool[tkFree].epoch < MaxEpoch
  /\ LET r == schGetTaskNode(tkLink, tkFree, freeSize)
         s == [UsrIdle EXCEPT !.op = "schCreateTask", !.name = name, !.flag = flag]
     IN /\ tkLink' = r.link /\ tkFree' = r.head /\ freeSize' = r.size
        /\ IF r.eno # SchEnoNone
           THEN /\ usr' = [usr EXCEPT ![u] = UsrRet(s, r.eno, NilNode)]
                /\ UNCHANGED <<schTaskNodePool, mbSent, mbCalled>>
           ELSE /\ usr' = [usr EXCEPT ![u] = [s EXCEPT !.pc = "cr_map", !.ptn = r.ptn]]
                /\ schTaskNodePool' = [schTaskNodePool EXCEPT ![r.ptn] =
                     [@ EXCEPT !.name = name, !.utep = TRUE, !.que = MakeChan, !.done = MakeChan,
                               !.stopped = MakeChan, !.tmTab = [i \in TmSlots |-> NilNode],
                               !.epoch = @ + 1]]
                /\ mbSent' = [mbSent EXCEPT ![r.ptn] = 0]
                /\ mbCalled' = [mbCalled EXCEPT ![r.ptn] = 0]
  /\ UNCHANGED <<tkBusy, busySize, tkMap, tmVars, sdlLock, dsp, panicked, nmsg, shVars, boot>>

\* A test that finds no name in the registry.
CreateDupNever(map, name) == FALSE

\* The test of the name against the registry.
CreateDup(map, name) == name \in DOMAIN map

\* schCreateTask: the name enters the registry, unless a task has it.
schCreateTaskMap(u) ==
  /\ SdlFree /\ usr[u].pc = "cr_map"
  /\ IF CreateDup(tkMap, usr[u].name)
     THEN /\ usr' = [usr EXCEPT ![u] = UsrRet(@, SchEnoDuplicated, NilNode)]
          /\ UNCHANGED tkMap
     ELSE /\ tkMap' = Put(tkMap, usr[u].name, usr[u].ptn)
          /\ usr' = [usr EXCEPT ![u].pc = "cr_enq"]
  /\ UNCHANGED <<schTaskNodePool, tkRingVars, tmVars, sdlLock, dsp, panicked, histVars, shVars, boot>>

\* schCreateTask: the node enters the busy ring, and the task starts or stays suspended.
schCreateTaskGo(u) ==
  /\ SdlFree /\ usr[u].pc = "cr_enq"
  /\ usr[u].flag = SchCreatedGo => \E d \in DspIds : dsp[d].pc = "none"
  /\ LET ptn == usr[u].ptn
     IN /\ tkLink' = RingPush(tkLink, tkBusy, ptn)
        /\ tkBusy' = ptn
        /\ busySize' = busySize + 1
        /\ IF usr[u].flag = SchCreatedGo
           THEN /\ schTaskNodePool' = [schTaskNodePool EXCEPT ![ptn].goStatus = SchCreatedGo]
                /\ dsp' = GoCommonTask(dsp, FreeDsp, ptn)
                /\ usr' = [usr EXCEPT ![u] = UsrRet(@, SchEnoNone, ptn)]
           ELSE /\ schTaskNodePool' = [schTaskNodePool EXCEPT ![ptn].goStatus = SchCreatedSuspend]
                /\ UNCHANGED dsp
                /\ usr' = [usr EXCEPT ![u] = UsrRet(@, IF usr[u].flag = SchCreatedSuspend
                                                       THEN SchEnoNone ELSE SchEnoSuspended, ptn)]
  /\ UNCHANGED <<tkFree, freeSize, tkMap, tmVars, sdlLock, panicked, histVars, shVars, boot>>

\* ---- schStartTask, schStartTaskEx ----

\* schGetTaskNodeByName
schGetTaskNodeByName(map, name) ==
  IF name \notin DOMAIN map THEN [eno |-> SchEnoNotFound, ptn |-> NilNode]
  ELSE [eno |-> SchEnoNone, ptn |-> map[name]]

\* The test that lets a task start.
StartMismatched(tcb) == tcb.goStatus # SchCreatedSuspend

\* schStartTask: the node of the name, and the test of its status.
schStartTask(u, name) ==
  /\ SdlFree /\ usr[u].pc = "idle"
  /\ LET r == schGetTaskNodeByName(tkMap, name)
         s == [UsrIdle EXCEPT !.op = "schStartTask", !.name = name]
     IN usr' = [usr EXCEPT ![u] =
                  IF r.eno # SchEnoNone THEN UsrRet(s, r.eno, NilNode)
                  ELSE IF StartMismatched(schTaskNodePool[r.ptn]) THEN UsrRet(s, SchEnoMismatched, r.ptn)
                  ELSE [s EXCEPT !.pc = "st_go", !.ptn = r.ptn]]
  /\ UNCHANGED <<schTaskNodePool, tkRingVars, tkMap, tmVars, sdlLock, dsp, panicked, histVars, shVars, boot>>

\* schStartTaskEx: the same with the node the caller holds.
schStartTaskEx(u, ptn) ==
  /\ ~panicked /\ usr[u].pc = "idle"
  /\ schTaskNodePool[ptn].epoch > 0
  /\ LET s == [UsrIdle EXCEPT !.op = "schStartTaskEx"]
     IN usr' = [usr EXCEPT ![u] =
                  IF StartMismatched(schTaskNodePool[ptn]) THEN UsrRet(s, SchEnoMismatched, ptn)
                  ELSE [s EXCEPT !.pc = "st_go", !.ptn = ptn]]
  /\ UNCHANGED <<schTaskNodePool, tkRingVars, tkMap, tmVars, sdlLock, dsp, panicked, histVars, shVars, boot>>

\* schStartTask, schStartTaskEx: the status becomes SchCreatedGo and the task goes.
schStartTaskGo(u) ==
  /\ ~panicked /\ usr[u].pc = "st_go"
  /\ \E d \in DspIds : dsp[d].pc = "none"
  /\ schTaskNodePool' = [schTaskNodePool EXCEPT ![usr[u].ptn].goStatus = SchCreatedGo]
  /\ dsp' = GoCommonTask(dsp, FreeDsp, usr[u].ptn)
  /\ usr' = [usr EXCEPT ![u] = UsrRet(@, SchEnoNone, usr[u].ptn)]
  /\ UNCHANGED <<tkRingVars, tkMap, tmVars, sdlLock, panicked, histVars, shVars, boot>>

\* ---- schStopTask ----

\* schStopTask: the node of the name.
schStopTask(u, name) ==
  /\ SdlFree /\ usr[u].pc = "idle"
  /\ LET r == schGetTaskNodeByName(tkMap, name)
         s == [UsrIdle EXCEPT !.op = "schStopTask", !.name = name]
     IN usr' = [usr EXCEPT ![u] =
                  IF r.eno # SchEnoNone THEN UsrRet(s, r.eno, NilNode)
                  ELSE [s EXCEPT !.pc = "sp_done", !.ptn = r.ptn, !.w = NoEp]]
  /\ UNCHANGED <<schTaskNodePool, tkRingVars, tkMap, tmVars, sdlLock, dsp, panicked, histVars, shVars, boot>>

\* schStopTask: ptn.task.done<-SchEnoKilled
schStopTaskDone(u) ==
  /\ ~panicked /\ usr[u].pc = "sp_done"
  /\ LET ptn == usr[u].ptn
         tcb == schTaskNodePool[ptn]
         o == SendTry(tcb.done, 1, tcb.epoch, usr[u].w)
     IN /\ o = "block" => usr[u].w = NoEp
        /\ usr' = [usr EXCEPT ![u] =
                     IF o = "nil" THEN [@ EXCEPT !.pc = "sp_done_nil"]
                     ELSE IF o = "block" THEN [@ EXCEPT !.w = tcb.epoch]
                     ELSE IF o = "ok" THEN [@ EXCEPT !.pc = "sp_wait", !.w = NoEp]
                     ELSE @]
        /\ schTaskNodePool' = IF o = "ok" THEN [schTaskNodePool EXCEPT ![ptn].done = ChPut(@, SchEnoKilled)]
                              ELSE schTaskNodePool
        /\ panicked' = (o = "panic")
  /\ UNCHANGED <<tkRingVars, tkMap, tmVars, sdlLock, dsp, histVars, shVars, boot>>

\* schStopTask: <-ptn.task.stopped
schStopTaskWait(u) ==
  /\ ~panicked /\ usr[u].pc = "sp_wait"
  /\ LET ptn == usr[u].ptn
         tcb == schTaskNodePool[ptn]
         o == RecvTry(tcb.stopped, tcb.epoch, usr[u].w)
     IN /\ o = "block" => usr[u].w = NoEp
        /\ usr' = [usr EXCEPT ![u] =
                     IF o = "nil" THEN [@ EXCEPT !.pc = "sp_wait_nil"]
                     ELSE IF o = "block" THEN [@ EXCEPT !.w = tcb.epoch]
                     ELSE UsrRet(@, SchEnoNone, ptn)]
        /\ schTaskNodePool' = IF o = "ok" THEN [schTaskNodePool EXCEPT ![ptn].stopped = ChGet(@)]
                              ELSE schTaskNodePool
  /\ UNCHANGED <<tkRingVars, tkMap, tmVars, sdlLock, dsp, panicked, histVars, shVars, boot>>

\* ---- schSendMsg ----

\* schSendMsg: the message enters the mailbox of the receiver, when there is room. The
\* messages a mailbox accepts are numbered in the order in which their sends complete.
schSendMsg(u, ptn, Id) ==
  /\ ~panicked /\ usr[u].pc \in {"idle", "sd_send"}
  /\ nmsg < MaxMsg
  /\ usr[u].pc = "idle" => schTaskNodePool[ptn].epoch > 0
  /\ usr[u].pc = "sd_send" => ptn = usr[u].ptn
  /\ LET tcb == schTaskNodePool[ptn]
         s == IF usr[u].pc = "idle" THEN [UsrIdle EXCEPT !.op = "schSendMsg", !.ptn = ptn] ELSE usr[u]
         o == SendTry(tcb.que, MbSize, tcb.epoch, s.w)
     IN /\ o = "block" => s.w = NoEp
        /\ usr' = [usr EXCEPT ![u] =
                     IF o = "nil" THEN UsrRet(s, SchEnoInternal, ptn)
                     ELSE IF o = "block" THEN [s EXCEPT !.pc = "sd_send", !.w = tcb.epoch]
                     ELSE IF o = "ok" THEN UsrRet(s, SchEnoNone, ptn)
                     ELSE s]
        /\ IF o = "ok"
           THEN /\ schTaskNodePool' = [schTaskNodePool EXCEPT ![ptn].que = ChPut(@, [id |-> mbSent[ptn] + 1, Id |-> Id, Body |-> NoVal])]
                /\ mbSent' = [mbSent EXCEPT ![ptn] = @ + 1]
                /\ nmsg' = nmsg + 1
           ELSE UNCHANGED <<schTaskNodePool, mbSent, nmsg>>
        /\ panicked' = (o = "panic")
  /\ UNCHANGED <<tkRingVars, tkMap, tmVars, sdlLock, dsp, mbCalled, shVars, boot>>

\* ---- schCommonTask ----

\* The lock of a task control block, held by the goroutine d of schCommonTask or by the
\* goroutine of the timer node t.
DspOwner(d) == <<"schCommonTask", d>>

TmOwner(t) == <<"schTimerCommonTask", t>>

\* The operand of a case of the select, evaluated when the select is entered.
SelectEp(c, ep) == IF c.open THEN ep ELSE NilEp

\* schCommonTask: the test of the control block, and queMsg.
schCommonTask(d) ==
  /\ ~panicked /\ dsp[d].pc = "begin"
  /\ LET tcb == schTaskNodePool[dsp[d].ptn]
     IN dsp' = [dsp EXCEPT ![d] =
                  IF ~tcb.utep \/ ~tcb.que.open \/ ~tcb.done.open THEN DspNone
                  ELSE [@ EXCEPT !.pc = "select", !.ep = tcb.epoch, !.wd = SelectEp(tcb.done, tcb.epoch)]]
  /\ UNCHANGED <<schTaskNodePool, tkRingVars, tkMap, tmVars, sdlLock, usr, panicked, histVars, shVars, boot>>

\* case msg := <-*queMsg: a message leaves the mailbox.
schCommonTaskMsg(d) ==
  /\ ~panicked /\ dsp[d].pc = "select"
  /\ LET ptn == dsp[d].ptn
         tcb == schTaskNodePool[ptn]
         o == RecvTry(tcb.que, tcb.epoch, dsp[d].ep)
     IN /\ o \in {"ok", "zero"}
        /\ dsp' = [dsp EXCEPT ![d].pc = "call", ![d].msg = IF o = "ok" THEN Head(tcb.que.buf) ELSE NoMsg]
        /\ schTaskNodePool' = IF o = "ok" THEN [schTaskNodePool EXCEPT ![ptn].que = ChGet(@)]
                              ELSE schTaskNodePool
  /\ UNCHANGED <<tkRingVars, tkMap, tmVars, sdlLock, usr, panicked, histVars, shVars, boot>>

\* ptn.task.utep.TaskProc4Scheduler(ptn, &msg): the entry function of the task is
\* entered. The call through a nil utep panics.
schCommonTaskProc(d) ==
  /\ ~panicked /\ dsp[d].pc = "call"
  /\ LET ptn == dsp[d].ptn
     IN IF schTaskNodePool[ptn].utep
        THEN /\ dsp' = [dsp EXCEPT ![d].pc = "proc", ![d].msg = NoMsg, ![d].did = FALSE, ![d].w = NoEp]
             /\ mbCalled' = [mbCalled EXCEPT ![ptn] = dsp[d].msg.id]
             /\ UNCHANGED panicked
        ELSE /\ panicked' = TRUE
             /\ UNCHANGED <<dsp, mbCalled>>
  /\ UNCHANGED <<schTaskNodePool, tkRingVars, tkMap, tmVars, sdlLock, usr, mbSent, nmsg, shVars, boot>>

\* The entry function returns, and the loop enters the select again.
TaskProcReturn(d) ==
  /\ ~panicked /\ dsp[d].pc = "proc" /\ dsp[d].w = NoEp
  /\ LET tcb == schTaskNodePool[dsp[d].ptn]
     IN dsp' = [dsp EXCEPT ![d].pc = "select", ![d].msg = NoMsg, ![d].did = FALSE,
                           ![d].hop = NoVal, ![d].hret = NoVal, ![d].tm = NilNode, ![d].tep = 0,
                           ![d].tid = 0, ![d].wd = SelectEp(tcb.done, tcb.epoch)]
  /\ UNCHANGED <<schTaskNodePool, tkRingVars, tkMap, tmVars, sdlLock, usr, panicked, histVars, shVars, boot>>

\* schTaskDone, called by the entry function for its own task as powerOff calls it:
\* ptn.task.done<-eno.
schTaskDone(d) ==
  /\ ~panicked /\ dsp[d].pc = "proc" /\ ~dsp[d].did
  /\ LET ptn == dsp[d].ptn
         tcb == schTaskNodePool[ptn]
         o == SendTry(tcb.done, 1, tcb.epoch, dsp[d].w)
     IN /\ o = "block" => dsp[d].w = NoEp
        /\ dsp' = [dsp EXCEPT ![d] =
                     IF o = "nil" THEN [@ EXCEPT !.pc = "done_nil"]
                     ELSE IF o = "block" THEN [@ EXCEPT !.w = tcb.epoch]
                     ELSE IF o = "ok" THEN [@ EXCEPT !.did = TRUE, !.hop = "schTaskDone", !.hret = SchEnoNone, !.w = NoEp]
                     ELSE @]
        /\ schTaskNodePool' = IF o = "ok" THEN [schTaskNodePool EXCEPT ![ptn].done = ChPut(@, SchEnoPowerOff)]
                              ELSE schTaskNodePool
        /\ panicked' = (o = "panic")
  /\ UNCHANGED <<tkRingVars, tkMap, tmVars, sdlLock, usr, histVars, shVars, boot>>

\* case eno = <-*done: the loop is left.
schCommonTaskDone(d) ==
  /\ ~panicked /\ dsp[d].pc = "select" /\ dsp[d].wd # NilEp
  /\ LET ptn == dsp[d].ptn
         tcb == schTaskNodePool[ptn]
         o == RecvTry(tcb.done, tcb.epoch, dsp[d].wd)
     IN /\ o \in {"ok", "zero"}
        /\ dsp' = [dsp EXCEPT ![d].pc = "stopped", ![d].w = NoEp,
                              ![d].eno = IF o = "ok" THEN Head(tcb.done.buf) ELSE SchEnoNone]
        /\ schTaskNodePool' = IF o = "ok" THEN [schTaskNodePool EXCEPT ![ptn].done = ChGet(@)]
                              ELSE schTaskNodePool
  /\ UNCHANGED <<tkRingVars, tkMap, tmVars, sdlLock, usr, panicked, histVars, shVars, boot>>

\* ptn.task.stopped<-true
schCommonTaskStopped(d) ==
  /\ ~panicked /\ dsp[d].pc = "stopped"
  /\ LET ptn == dsp[d].ptn
         tcb == schTaskNodePool[ptn]
         o == SendTry(tcb.stopped, 1, tcb.epoch, dsp[d].w)
     IN /\ o = "block" => dsp[d].w = NoEp
        /\ dsp' = [dsp EXCEPT ![d] =
                     IF o = "nil" THEN [@ EXCEPT !.pc = "stopped_nil"]
                     ELSE IF o = "block" THEN [@ EXCEPT !.w = tcb.epoch]
                     ELSE IF o = "ok" THEN [@ EXCEPT !.pc = "busy_deque", !.w = NoEp]
                     ELSE @]
        /\ schTaskNodePool' = IF o = "ok" THEN [schTaskNodePool EXCEPT ![ptn].stopped = ChPut(@, TRUE)]
                              ELSE schTaskNodePool
        /\ panicked' = (o = "panic")
  /\ UNCHANGED <<tkRingVars, tkMap, tmVars, sdlLock, usr, histVars, shVars, boot>>

\* ---- schStopTaskEx ----

\* schStopTaskEx: the node leaves the busy ring. The die-callback of the task is code of
\* the user.
schStopTaskEx(d) ==
  /\ SdlFree /\ dsp[d].pc = "busy_deque"
  /\ LET r == schTaskBusyDeque(tkLink, tkBusy, busySize, dsp[d].ptn)
     IN /\ tkLink' = r.link /\ tkBusy' = r.head /\ busySize' = r.size
        /\ dsp' = [dsp EXCEPT ![d] = IF r.eno # SchEnoNone THEN DspNone ELSE [@ EXCEPT !.pc = "kill_timers"]]
  /\ UNCHANGED <<schTaskNodePool, tkFree, freeSize, tkMap, tmVars, sdlLock, usr, panicked, histVars, shVars, boot>>

\* schTcbClean, under the lock of the control block.
schTcbClean(tcb) ==
  [tcb EXCEPT !.name = "", !.utep = FALSE, !.goStatus = SchCreatedSuspend,
              !.que = NilChan, !.done = NilChan, !.stopped = NilChan,
              !.tmTab = [i \in TmSlots |-> NilNode]]

\* schStopTaskEx: schTcbClean, which takes the lock of the control block and not
\* sdl.lock; the timers of the slots leave the timer index.
schStopTaskExClean(d) ==
  /\ ~panicked /\ dsp[d].pc = "tcb_clean"
  /\ LET ptn == dsp[d].ptn
         tcb == schTaskNodePool[ptn]
     IN /\ tcb.lock = NoOwner
        /\ schTaskNodePool' = [schTaskNodePool EXCEPT ![ptn] = schTcbClean(tcb)]
        /\ tmMap' = [t \in DOMAIN tmMap \ {tcb.tmTab[i] : i \in TmSlots} |-> tmMap[t]]
        /\ dsp' = [dsp EXCEPT ![d].pc = "ret_node"]
  /\ UNCHANGED <<tkRingVars, tkMap, schTimerNodePool, tmRingVars, sdlLock, usr, panicked, histVars, shVars, boot>>

\* schStopTaskEx: schRetTaskNode.
schStopTaskExRet(d) ==
  /\ SdlFree /\ dsp[d].pc = "ret_node"
  /\ tkLink' = RingPush(tkLink, tkFree, dsp[d].ptn)
  /\ tkFree' = dsp[d].ptn
  /\ freeSize' = freeSize + 1
  /\ dsp' = [dsp EXCEPT ![d].pc = "del_name"]
  /\ UNCHANGED <<schTaskNodePool, tkBusy, busySize, tkMap, tmVars, sdlLock, usr, panicked, histVars, shVars, boot>>

\* The registry after "if len(ptn.task.name) > 0 { delete(sdl.tkMap, ptn.task.name) }".
DelName(map, name) == IF name # "" THEN Del(map, name) ELSE map

\* schStopTaskEx: the name leaves the registry, and the goroutine ends.
schStopTaskExName(d) ==
  /\ SdlFree /\ dsp[d].pc = "del_name"
  /\ tkMap' = DelName(tkMap, schTaskNodePool[dsp[d].ptn].name)
  /\ dsp' = [dsp EXCEPT ![d] = DspNone]
  /\ UNCHANGED <<schTaskNodePool, tkRingVars, tmVars, sdlLock, usr, panicked, histVars, shVars, boot>>

\* ---- schSetTimer, schKillTimer, schKillTaskTimers ----

\* The first free slot of the timer table of a task, schMaxTaskTimer when there is none.
FreeTid(tcb) ==
  IF \E i \in TmSlots : tcb.tmTab[i] = NilNode
  THEN CHOOSE i \in TmSlots : tcb.tmTab[i] = NilNode /\ \A j \in TmSlots : tcb.tmTab[j] = NilNode => i <= j
  ELSE schMaxTaskTimer

\* A clean that leaves the slot as it is.
TimerCleanKeep(pool, ptn, tid) == pool

\* funcAbsTimerClean and funcCycTimerClean: the slot of the table and the entry of the
\* timer index.
TimerClean(pool, ptn, tid) == [pool EXCEPT ![ptn].tmTab[tid] = NilNode]

\* funcAbsTimerClean and funcCycTimerClean: the fields of tmcb.
TmcbClean(tm) == [tm EXCEPT !.tmt = schTmTypeNull, !.dur = 0, !.extra = NoVal]

\* An event that bears EvTimerBase alone.
TimerEventBase(tm, id) == [id |-> id, Id |-> EvTimerBase, Body |-> tm.extra]

\* The event schSendTimerEvent makes of a timer.
TimerEvent(tm, id) == [id |-> id, Id |-> EvTimerBase + tm.utid, Body |-> tm.extra]

\* schSetTimer, called by the entry function of the task: a slot, a timer node, and the
\* goroutine of the timer.
schSetTimer(d, tdc) ==
  /\ SdlFree /\ dsp[d].pc = "proc" /\ ~dsp[d].did /\ dsp[d].w = NoEp
  /\ tmFree # NilNode => schTimerNodePool[tmFree].epoch < MaxEpoch
  /\ LET ptn == dsp[d].ptn
         tid == FreeTid(schTaskNodePool[ptn])
         r == schGetTimerNode(tmLink, tmFree, tmFreeSize)
     IN IF tid >= schMaxTaskTimer
        THEN /\ dsp' = [dsp EXCEPT ![d].did = TRUE, ![d].hop = "schSetTimer", ![d].hret = SchEnoResource]
             /\ UNCHANGED <<schTaskNodePool, tmVars>>
        ELSE /\ tmLink' = r.link /\ tmFree' = r.head /\ tmFreeSize' = r.size
             /\ dsp' = [dsp EXCEPT ![d].did = TRUE, ![d].hop = "schSetTimer", ![d].hret = r.eno]
             /\ IF r.eno # SchEnoNone
                THEN UNCHANGED <<schTaskNodePool, schTimerNodePool, tmMap>>
                ELSE /\ schTaskNodePool' = [schTaskNodePool EXCEPT ![ptn].tmTab[tid] = r.ptm]
                     /\ tmMap' = Put(tmMap, r.ptm, ptn)
                     /\ schTimerNodePool' = [schTimerNodePool EXCEPT ![r.ptm] =
                          [@ EXCEPT !.tmt = tdc.Tmt, !.dur = tdc.Dur, !.utid = tdc.Utid,
                                    !.extra = tdc.Extra, !.taskNode = ptn, !.stop = MakeChan,
                                    !.stopped = TRUE, !.pc = "begin", !.kind = tdc.Tmt, !.sent = 0,
                                    !.epoch = @ + 1]]
  /\ UNCHANGED <<tkRingVars, tkMap, sdlLock, usr, panicked, histVars, shVars, boot>>

\* The test schKillTimer makes of the slot.
TimerGone(tcb, tid) == tcb.tmTab[tid] = NilNode

\* The timer ids handed to schKillTimer: those of the slots, and some beside them.
KillTids == (0 - 1)..(schMaxTaskTimer + 1)

\* schKillTimer: "tid < 0 || tid > schMaxTaskTimer"
KillTidBad(tid) == tid < 0 \/ tid > schMaxTaskTimer

\* schKillTimer, called by the entry function of the task: SchEnoParameter for a tid the
\* test refuses; else, under the lock of the task, the slot is read (an index beyond the
\* table is a run-time panic, the lock still held): nothing to do for a slot without
\* timer; else the stop signal, sent under the lock of the task.
schKillTimer(d, tid) ==
  /\ ~panicked /\ dsp[d].pc = "proc" /\ ~dsp[d].did /\ dsp[d].w = NoEp
  /\ LET ptn == dsp[d].ptn
         tcb == schTaskNodePool[ptn]
     IN IF KillTidBad(tid)
        THEN /\ dsp' = [dsp EXCEPT ![d].did = TRUE, ![d].hop = "schKillTimer", ![d].tid = tid,
                                   ![d].hret = SchEnoParameter]
             /\ UNCHANGED <<schTaskNodePool, schTimerNodePool, panicked>>
        ELSE /\ tcb.lock = NoOwner
             /\ IF tid \notin TmSlots
                THEN /\ panicked' = TRUE
                     /\ schTaskNodePool' = [schTaskNodePool EXCEPT ![ptn].lock = DspOwner(d)]
                     /\ UNCHANGED <<dsp, schTimerNodePool>>
                ELSE IF TimerGone(tcb, tid)
                THEN /\ dsp' = [dsp EXCEPT ![d].did = TRUE, ![d].hop = "schKillTimer", ![d].tid = tid,
                                           ![d].hret = SchEnoNone]
                     /\ UNCHANGED <<schTaskNodePool, schTimerNodePool, panicked>>
                ELSE /\ Len(schTimerNodePool[tcb.tmTab[tid]].stop.buf) < 1
                     /\ schTimerNodePool' = [schTimerNodePool EXCEPT ![tcb.tmTab[tid]].stop = ChPut(@, TRUE)]
                     /\ dsp' = [dsp EXCEPT ![d].pc = "kill_wait", ![d].hop = "schKillTimer", ![d].tid = tid,
                                           ![d].tm = tcb.tmTab[tid],
                                           ![d].tep = schTimerNodePool[tcb.tmTab[tid]].epoch]
                     /\ UNCHANGED <<schTaskNodePool, panicked>>
  /\ UNCHANGED <<tkRingVars, tkMap, tmRingVars, tmMap, sdlLock, usr, histVars, shVars, boot>>

\* schKillTaskTimers: under the lock of the task, held until the function returns, the
\* stop signal to a timer of the timer index; without timer left, the function returns.
schKillTaskTimers(d) ==
  /\ ~panicked /\ dsp[d].pc = "kill_timers"
  /\ LET ptn == dsp[d].ptn
         tcb == schTaskNodePool[ptn]
     IN /\ tcb.lock \in {NoOwner, DspOwner(d)}
        /\ IF \A i \in TmSlots : tcb.tmTab[i] = NilNode
           THEN /\ schTaskNodePool' = [schTaskNodePool EXCEPT ![ptn].lock = NoOwner]
                /\ dsp' = [dsp EXCEPT ![d].pc = "tcb_clean", ![d].tm = NilNode]
                /\ UNCHANGED schTimerNodePool
           ELSE \E i \in TmSlots :
                  /\ tcb.tmTab[i] # NilNode
                  /\ Len(schTimerNodePool[tcb.tmTab[i]].stop.buf) < 1
                  /\ schTaskNodePool' = [schTaskNodePool EXCEPT ![ptn].lock = DspOwner(d)]
                  /\ schTimerNodePool' = [schTimerNodePool EXCEPT ![tcb.tmTab[i]].stop = ChPut(@, TRUE)]
                  /\ dsp' = [dsp EXCEPT ![d].pc = "kt_wait", ![d].tm = tcb.tmTab[i],
                                        ![d].tep = schTimerNodePool[tcb.tmTab[i]].epoch]
  /\ UNCHANGED <<tkRingVars, tkMap, tmRingVars, tmMap, sdlLock, usr, panicked, histVars, shVars, boot>>

\* ---- schTimerCommonTask ----

\* schTimerCommonTask: tid, read from the timer index under the lock of the task; then
\* the ticker of a periodic timer, of which a duration that is not positive panics; the
\* test of the duration of an absolute timer; a timer of another type, or an absolute
\* timer without positive duration, ends the goroutine with SchEnoParameter.
schTimerCommonTask(t) ==
  /\ ~panicked /\ schTimerNodePool[t].pc = "begin"
  /\ LET tm == schTimerNodePool[t]
         tcb == schTaskNodePool[tm.taskNode]
         tid == IF \E i \in TmSlots : tcb.tmTab[i] = t
                THEN CHOOSE i \in TmSlots : tcb.tmTab[i] = t ELSE 0
     IN /\ tcb.lock = NoOwner
        /\ panicked' = (tm.tmt = schTmTypePeriod /\ tm.dur <= 0)
        /\ schTimerNodePool' = [schTimerNodePool EXCEPT ![t].tid = tid,
             ![t].pc = IF tm.tmt \in {schTmTypePeriod, schTmTypeAbsolute} /\ tm.dur > 0
                       THEN "wait" ELSE "none"]
  /\ UNCHANGED <<schTaskNodePool, tkRingVars, tkMap, tmRingVars, tmMap, sdlLock, dsp, usr, histVars, shVars, boot>>

\* case <-tm.C, case <-to: the timer expires.
TimerExpire(t) ==
  /\ ~panicked /\ schTimerNodePool[t].pc = "wait"
  /\ schTimerNodePool[t].sent < MaxTick
  /\ schTimerNodePool' = [schTimerNodePool EXCEPT ![t].pc = "expired"]
  /\ UNCHANGED <<schTaskNodePool, tkRingVars, tkMap, tmRingVars, tmMap, sdlLock, dsp, usr, panicked,
                 histVars, shVars, boot>>

\* A goroutine of a timer that goes on without the lock of the task.
TimerSdlOnly(t) ==
  schTimerNodePool[t].tmt = schTmTypeAbsolute => sdlLock \in {NoOwner, TmOwner(t)}

\* The goroutine of a timer, in a case of its select, has the lock of the task, and
\* sdl.lock, which an absolute timer takes next, is free or its own.
TimerHasLocks(t) ==
  /\ schTaskNodePool[schTimerNodePool[t].taskNode].lock = TmOwner(t)
  /\ schTimerNodePool[t].tmt = schTmTypeAbsolute => sdlLock \in {NoOwner, TmOwner(t)}

\* "ptm.tmcb.taskNode.task.lock.Lock()", the first statement of every case of the selects.
TimerLock(t) ==
  /\ ~panicked /\ schTimerNodePool[t].pc \in {"expired", "stopping"}
  /\ schTimerNodePool[t].taskNode # NilNode
  /\ schTaskNodePool[schTimerNodePool[t].taskNode].lock = NoOwner
  /\ schTaskNodePool' = [schTaskNodePool EXCEPT ![schTimerNodePool[t].taskNode].lock = TmOwner(t)]
  /\ UNCHANGED <<schTimerNodePool, tkRingVars, tkMap, tmRingVars, tmMap, sdlLock, dsp, usr, panicked,
                 histVars, shVars, boot>>

\* schSendTimerEvent under the locks: the event enters the mailbox when there is room,
\* and the goroutine waits at the send, with the locks, when there is none; a periodic
\* timer goes on, an absolute timer is cleaned and ends.
schSendTimerEvent(t) ==
  /\ ~panicked /\ schTimerNodePool[t].pc = "expired"
  /\ TimerHasLocks(t)
  /\ LET tm == schTimerNodePool[t]
         ptn == tm.taskNode
         tcb == schTaskNodePool[ptn]
         o == SendTry(tcb.que, MbSize, tcb.epoch, NoEp)
         abs == tm.tmt = schTmTypeAbsolute
     IN /\ panicked' = (o \in {"nil", "panic"})
        /\ IF o = "block"
           THEN /\ sdlLock' = IF abs THEN TmOwner(t) ELSE sdlLock
                /\ UNCHANGED <<schTaskNodePool, schTimerNodePool, tmMap, mbSent, nmsg>>
           ELSE IF o = "ok"
           THEN /\ mbSent' = [mbSent EXCEPT ![ptn] = @ + 1]
                /\ UNCHANGED nmsg
                /\ sdlLock' = IF abs THEN NoOwner ELSE sdlLock
                /\ LET P == [schTaskNodePool EXCEPT ![ptn].lock = NoOwner,
                                                    ![ptn].que = ChPut(@, TimerEvent(tm, mbSent[ptn] + 1))]
                   IN IF abs
                      THEN /\ schTaskNodePool' = TimerClean(P, ptn, tm.tid)
                           /\ tmMap' = Del(tmMap, t)
                           /\ schTimerNodePool' = [schTimerNodePool EXCEPT ![t] =
                                [TmcbClean(@) EXCEPT !.pc = "ret", !.sent = @ + 1, !.taskNode = NilNode]]
                      ELSE /\ schTaskNodePool' = P
                           /\ schTimerNodePool' = [schTimerNodePool EXCEPT ![t].pc = "wait", ![t].sent = @ + 1]
                           /\ UNCHANGED tmMap
           ELSE UNCHANGED <<schTaskNodePool, schTimerNodePool, tmMap, mbSent, nmsg, sdlLock>>
  /\ UNCHANGED <<tkRingVars, tkMap, tmRingVars, dsp, usr, mbCalled, shVars, boot>>

\* case stop := <-ptm.tmcb.stop: the stop signal is taken.
TimerStop(t) ==
  /\ ~panicked /\ schTimerNodePool[t].pc = "wait"
  /\ schTimerNodePool[t].stop.open /\ schTimerNodePool[t].stop.buf # <<>>
  /\ schTimerNodePool' = [schTimerNodePool EXCEPT ![t].pc = "stopping", ![t].stop = ChGet(@)]
  /\ UNCHANGED <<schTaskNodePool, tkRingVars, tkMap, tmRingVars, tmMap, sdlLock, dsp, usr, panicked, histVars, shVars, boot>>

\* The stopped timer is cleaned under the locks and keeps the lock of the task.
TimerKilled(t) ==
  /\ ~panicked /\ schTimerNodePool[t].pc = "stopping"
  /\ TimerHasLocks(t)
  /\ LET tm == schTimerNodePool[t]
         ptn == tm.taskNode
     IN /\ schTaskNodePool' = [TimerClean(schTaskNodePool, ptn, tm.tid) EXCEPT ![ptn].lock = TmOwner(t)]
        /\ tmMap' = Del(tmMap, t)
        /\ schTimerNodePool' = [schTimerNodePool EXCEPT ![t] = [TmcbClean(@) EXCEPT !.pc = "stopped"]]
  /\ UNCHANGED <<tkRingVars, tkMap, tmRingVars, sdlLock, dsp, usr, panicked, histVars, shVars, boot>>

\* The goroutines that wait for the acknowledgment of the timer t.
KillWaiting(d, t) ==
  /\ dsp[d].pc \in {"kill_wait", "kt_wait"}
  /\ dsp[d].tm = t /\ dsp[d].tep = schTimerNodePool[t].epoch

\* ptm.tmcb.stopped<-true, received by the goroutine that killed the timer; the channels
\* of the timer are closed and the lock of the task released.
TimerStopped(t, d) ==
  /\ ~panicked /\ schTimerNodePool[t].pc = "stopped"
  /\ KillWaiting(d, t)
  /\ schTimerNodePool' = [schTimerNodePool EXCEPT ![t] =
       [@ EXCEPT !.pc = "ret", !.stop = NilChan, !.stopped = FALSE, !.taskNode = NilNode]]
  /\ schTaskNodePool' = [schTaskNodePool EXCEPT ![schTimerNodePool[t].taskNode].lock = NoOwner]
  /\ dsp' = [dsp EXCEPT ![d] = IF @.pc = "kill_wait"
                               THEN [@ EXCEPT !.pc = "proc", !.did = TRUE, !.hret = SchEnoNone]
                               ELSE [@ EXCEPT !.pc = "kill_timers", !.tm = NilNode]]
  /\ UNCHANGED <<tkRingVars, tkMap, tmRingVars, tmMap, sdlLock, usr, panicked, histVars, shVars, boot>>

\* schRetTimerNode: the timer node is back in the free ring, and the goroutine ends.
schRetTimerNode(t) ==
  /\ SdlFree /\ schTimerNodePool[t].pc = "ret"
  /\ tmLink' = RingPush(tmLink, tmFree, t)
  /\ tmFree' = t
  /\ tmFreeSize' = tmFreeSize + 1
  /\ schTimerNodePool' = [schTimerNodePool EXCEPT ![t].pc = "none"]
  /\ UNCHANGED <<schTaskNodePool, tkRingVars, tkMap, tmMap, sdlLock, dsp, usr, panicked, histVars, shVars, boot>>

\* ---- schSchedulerStart ----

\* The goroutine that calls schSchedulerStart.
BootUsr == "u1"

\* The sequences over S of length n at most.
SeqsUpTo(S, n) == UNION {[1..k -> S] : k \in 0..n}

StaticNames == {"tsk", "aux"}

\* The static task tables: of a TaskStaticDescription, the name and the flag.
StaticTables == SeqsUpTo([Name : StaticNames, Flag : {SchCreatedGo, SchCreatedSuspend}], MaxStatic)

\* The lists of the names of the tasks to power on.
PowerOnLists == SeqsUpTo(StaticNames \cup {"none"}, MaxPowerOn)

\* schSchedulerStart is about to call the scheduler.
BootToCall == usr[BootUsr].pc = "idle" /\ usr[BootUsr].eno = NoVal

\* The call schSchedulerStart made has returned.
BootReturned == usr[BootUsr].pc = "idle" /\ usr[BootUsr].eno # NoVal

\* return eno, nil
StartRet(b, eno) == [b EXCEPT !.pc = "ret", !.eno = eno]

\* The loop over the static table at entry loop; after the last entry, the loop over tpo.
StartLoop(b, loop) ==
  IF loop <= Len(b.tsd) THEN [b EXCEPT !.pc = "create", !.loop = loop]
  ELSE [b EXCEPT !.pc = "tpo", !.loop = 1]

\* A static task is sent EvSchPoweron at once.
StartPowerOnAlways(flag) == TRUE

\* The test of the flag of a static task: is it sent EvSchPoweron at once?
StartPowerOnFlag(flag) == flag = SchCreatedGo

\* schSchedulerStart: the test of the static table.
schSchedulerStart(tsd, tpo) ==
  /\ ~panicked /\ boot.pc = "off" /\ usr[BootUsr].pc = "idle"
  /\ boot' = IF Len(tsd) <= 0 THEN StartRet([BootOff EXCEPT !.tsd = tsd, !.tpo = tpo], SchEnoParameter)
             ELSE StartLoop([BootOff EXCEPT !.tsd = tsd, !.tpo = tpo], 1)
  /\ usr' = [usr EXCEPT ![BootUsr] = UsrIdle]
  /\ UNCHANGED <<schTaskNodePool, tkRingVars, tkMap, tmVars, sdlLock, dsp, panicked, histVars, shVars>>

\* schSchedulerStart: schCreateTask for the entry of the static table, Flag always
\* SchCreatedGo.
StartCreate ==
  /\ boot.pc = "create" /\ BootToCall
  /\ schCreateTask(BootUsr, boot.tsd[boot.loop].Name, SchCreatedGo)

\* schSchedulerStart: schCreateTask has returned; the node is kept by name, and the flag
\* of the entry decides on EvSchPoweron.  made is the history of the nodes created.
StartCreated ==
  /\ ~panicked /\ boot.pc = "create" /\ BootReturned
  /\ LET desc == boot.tsd[boot.loop]
         ptn == usr[BootUsr].ptn
         b == [boot EXCEPT !.name2PtnMap = Put(@, desc.Name, ptn), !.ptn = ptn, !.made = Append(@, ptn)]
     IN boot' = IF usr[BootUsr].eno # SchEnoNone THEN StartRet(boot, SchEnoParameter)
                ELSE IF StartPowerOnFlag(desc.Flag) THEN [b EXCEPT !.pc = "poweron"]
                ELSE StartLoop(b, boot.loop + 1)
  /\ usr' = [usr EXCEPT ![BootUsr] = UsrIdle]
  /\ UNCHANGED <<schTaskNodePool, tkRingVars, tkMap, tmVars, sdlLock, dsp, panicked, histVars, shVars>>

\* schSchedulerStart: schSendMsg(&po), to the static task just created or to the task
\* found by its name.
StartPowerOn ==
  /\ boot.pc \in {"poweron", "tpo_send"}
  /\ BootToCall \/ usr[BootUsr].pc = "sd_send"
  /\ schSendMsg(BootUsr, boot.ptn, EvSchPoweron)

\* schSchedulerStart: schSendMsg has returned, in the loop over the static table.
StartPoweredOn ==
  /\ ~panicked /\ boot.pc = "poweron" /\ BootReturned
  /\ boot' = IF usr[BootUsr].eno # SchEnoNone THEN StartRet(boot, usr[BootUsr].eno)
             ELSE StartLoop([boot EXCEPT !.sent = Append(@, [by |-> "tsd", at |-> boot.loop,
                                                            name |-> boot.tsd[boot.loop].Name,
                                                            ptn |-> boot.ptn])],
                            boot.loop + 1)
  /\ usr' = [usr EXCEPT ![BootUsr] = UsrIdle]
  /\ UNCHANGED <<schTaskNodePool, tkRingVars, tkMap, tmVars, sdlLock, dsp, panicked, histVars, shVars>>

\* schSchedulerStart: schGetTaskNodeByName for the next name of tpo; a name without
\* task is passed over.  found is the history of the names that had a task.
StartPowerOnList ==
  /\ SdlFree /\ boot.pc = "tpo" /\ boot.loop <= Len(boot.tpo)
  /\ LET r == schGetTaskNodeByName(tkMap, boot.tpo[boot.loop])
     IN boot' = IF r.eno # SchEnoNone \/ r.ptn = NilNode THEN [boot EXCEPT !.loop = @ + 1]
                ELSE [boot EXCEPT !.pc = "tpo_send", !.ptn = r.ptn,
                                   !.found = Append(@, [by |-> "tpo", at |-> boot.loop,
                                                        name |-> boot.tpo[boot.loop], ptn |-> r.ptn])]
  /\ UNCHANGED <<schTaskNodePool, tkRingVars, tkMap, tmVars, sdlLock, dsp, usr, panicked, histVars, shVars>>

\* schSchedulerStart: schSendMsg has returned, in the loop over tpo.
StartListPoweredOn ==
  /\ ~panicked /\ boot.pc = "tpo_send" /\ BootReturned
  /\ boot' = IF usr[BootUsr].eno # SchEnoNone THEN StartRet(boot, usr[BootUsr].eno)
             ELSE [boot EXCEPT !.pc = "tpo", !.loop = @ + 1,
                               !.sent = Append(@, [by |-> "tpo", at |-> boot.loop,
                                                   name |-> boot.tpo[boot.loop], ptn |-> boot.ptn])]
  /\ usr' = [usr EXCEPT ![BootUsr] = UsrIdle]
  /\ UNCHANGED <<schTaskNodePool, tkRingVars, tkMap, tmVars, sdlLock, dsp, panicked, histVars, shVars>>

\* schSchedulerStart: return SchEnoNone, &name2PtnMap
StartOk ==
  /\ ~panicked /\ boot.pc = "tpo" /\ boot.loop > Len(boot.tpo)
  /\ boot' = StartRet(boot, SchEnoNone)
  /\ UNCHANGED <<schTaskNodePool, tkRingVars, tkMap, tmVars, sdlLock, dsp, usr, panicked, histVars, shVars>>

\* ------------------------------------------------------------ system ----

InitShell ==
  /\ peerActived = [n \in Nodes |-> EmptyMap]
  /\ deDupKeyMap = [n \in Nodes |-> EmptyMap]
  /\ deDupMap = [n \in Nodes |-> EmptyMap]
  /\ tmDedup = [n \in Nodes |-> EmptyMap]
  /\ deDupLock = [n \in Nodes |-> NoLock]
  /\ peerLock = [n \in Nodes |-> NoLock]
  /\ sh = [n \in Nodes |-> ShIdle]
  /\ rx = [n \in Nodes |-> [p \in Nodes |-> RxNone]]
  /\ rxq = [n \in Nodes |-> [p \in Nodes |-> <<>>]]
  /\ pcdCnt = [n \in Nodes |-> [kp \in Keys \X Nodes |-> 0]]
  /\ wire = <<>> /\ bcl = <<>>
  /\ InitSch

\* One chain shell, on node A, after NewShellMgr (deDup: true) and powerOn; its peers are
\* the environment.
Init ==
  /\ running = {"A"} /\ closed = FALSE /\ tmFaulty = FALSE
  /\ deDup = [n \in Nodes |-> TRUE]
  /\ InitShell /\ skmc = EmptyMap

\* The steps of the shell task in broadcastReq.
BcrNext ==
  \/ \E n \in running, req \in BroadcastReqs : ShBroadcastReq(n, req)
  \/ \E n \in running : ShSkmTimer(n)
  \/ \E n \in running : ShSkmInsert(n)
  \/ \E n \in running : ShBcrLoop(n)
  \/ \E n \in running, woken \in BOOLEAN : ShChkkSend(n, woken)
  \/ \E n \in running : ShReturn(n)

\* The steps of the rx-workers and of the deduplication tick goroutine.
RxNext ==
  \/ \E n \in running, p \in Nodes : RxProc(n, p)
  \/ \E n \in running, p \in Nodes, woken \in BOOLEAN : RxRptkSend(n, p, woken)
  \/ \E n \in running, p \in Nodes : RxRptkDedup(n, p)
  \/ \E n \in running, p \in Nodes, woken \in BOOLEAN : RxPcdSend(n, p, woken)
  \/ \E n \in running, p \in Nodes : RxLoop(n, p)
  \/ \E n \in running : Tick(n)

\* The other messages of the shell task, and the peer instances of the environment.
OpenNext ==
  \/ \E n \in running, p \in Nodes : ShPeerActiveInd(n, p)
  \/ \E n \in running, p \in Nodes : ShPeerCloseCfm(n, p)
  \/ \E n \in running, p \in Nodes : ShPeerAskToCloseInd(n, p)
  \/ \E n \in running : ShGetChainInfoReq(n)
  \/ \E n \in running, p \in Nodes : ShGetChainInfoRsp(n, p)
  \/ \E n \in running, p \in Nodes : RxClose(n, p)
  \/ \E n \in running, p \in Nodes : TxDrain(n, p)

Next == BcrNext \/ RxNext \/ OpenNext

Spec == Init /\ [][Next]_vars

\* The same shell, with a timer manager of which StartTimer may fail.
InitTmFail ==
  /\ running = {"A"} /\ closed = FALSE /\ tmFaulty = TRUE
  /\ deDup = [n \in Nodes |-> TRUE]
  /\ InitShell /\ skmc = EmptyMap

SpecTmFail == InitTmFail /\ [][Next]_vars

\* The same shell with ShellManager.deDup false, a value NewShellMgr does not give it: the
\* branches the code keeps for "shMgr.deDup == false".
InitNoDedup ==
  /\ running = {"A"} /\ closed = FALSE /\ tmFaulty = FALSE
  /\ deDup = [n \in Nodes |-> n # "A"]
  /\ InitShell /\ skmc = EmptyMap

NextNoDedup ==
  \/ Next
  \/ \E n \in running, woken \in BOOLEAN : ShBcrSend(n, woken)

SpecNoDedup == InitNoDedup /\ [][NextNoDedup]_vars

\* ------------------------------------------------------ two nodes ----

\* Nodes A and B, each the one peer of the other, after peerActiveInd on both: what the
\* shell of one writes to its tx channel, the rx-worker of the other reads.
InitTwo ==
  /\ running = Nodes /\ closed = TRUE /\ tmFaulty = FALSE
  /\ deDup = [n \in Nodes |-> TRUE]
  /\ peerActived = [n \in Nodes |-> [p \in Nodes \ {n} |-> NewPeerInst]]
  /\ rx = [n \in Nodes |-> [p \in Nodes |-> IF p = n THEN RxNone ELSE RxIdle]]
  /\ deDupKeyMap = [n \in Nodes |-> EmptyMap]
  /\ deDupMap = [n \in Nodes |-> EmptyMap]
  /\ tmDedup = [n \in Nodes |-> EmptyMap]
  /\ deDupLock = [n \in Nodes |-> NoLock]
  /\ peerLock = [n \in Nodes |-> NoLock]
  /\ sh = [n \in Nodes |-> ShIdle]
  /\ rxq = [n \in Nodes |-> [p \in Nodes |-> <<>>]]
  /\ pcdCnt = [n \in Nodes |-> [kp \in Keys \X Nodes |-> 0]]
  /\ wire = <<>> /\ bcl = <<>> /\ skmc = EmptyMap
  /\ InitSch

\* The steps of the shell task of n within broadcastReq.
ShStep(n) ==
  \/ ShSkmTimer(n)
  \/ ShSkmInsert(n)
  \/ ShBcrLoop(n)
  \/ \E woken \in BOOLEAN : ShChkkSend(n, woken)
  \/ ShReturn(n)

\* The steps of the rx-worker of peer p.
RxStep(n, p) ==
  \/ RxProc(n, p)
  \/ RxRptkDedup(n, p)
  \/ \E woken \in BOOLEAN : RxRptkSend(n, p, woken)
  \/ \E woken \in BOOLEAN : RxPcdSend(n, p, woken)
  \/ RxLoop(n, p)

NextTwo ==
  \/ BcrNext
  \/ RxNext
  \/ \E n \in running, p \in Nodes : TxDrain(n, p)

SpecTwo == InitTwo /\ [][NextTwo]_vars

\* Every goroutine that can take a step takes one, and every peer instance goes on
\* receiving from its tx channel.
FairTwo ==
  \A n \in Nodes :
    /\ WF_vars(ShStep(n))
    /\ \A p \in Nodes : WF_vars(RxStep(n, p)) /\ WF_vars(TxDrain(n, p))

SpecTwoFair == SpecTwo /\ FairTwo

\* ------------------------------------------- callers of setKeyMap ----

\* setKeyMap called by goroutines of their own, on node A: what the function does when
\* it is not the shell task alone that calls it.
SkmCallers == {"c1", "c2"}

SkmcIdle == [pc |-> "idle", key |-> 0, tm |-> 0, skm |-> NoVal]

\* setKeyMap, the test under deDupKeyLock.
SkmcCall(c, k) ==
  /\ Settled /\ skmc[c].pc = "idle"
  /\ skmc' = [skmc EXCEPT ![c] =
       IF SkmTest(deDupKeyMap["A"], k) = SKM_DUPLICATED
       THEN [SkmcIdle EXCEPT !.pc = "ret", !.key = k, !.skm = SKM_DUPLICATED]
       ELSE [SkmcIdle EXCEPT !.pc = "skm_timer", !.key = k]]
  /\ UNCHANGED <<shellVars, sh, running, closed, tmFaulty, deDup, bcl, schVars>>

SkmcTimer(c) ==
  /\ Settled /\ skmc[c].pc = "skm_timer" /\ deDupLock["A"] = NoLock
  /\ \E getOk \in BOOLEAN, startOk \in StartOutcomes :
       LET r == SkmTimer(tmDedup["A"], skmc[c].key, getOk, startOk) IN
         /\ tmDedup' = [tmDedup EXCEPT !["A"] = r.pool]
         /\ skmc' = [skmc EXCEPT ![c] = IF r.tm = 0 THEN [@ EXCEPT !.pc = "ret", !.skm = SKM_FAILED]
                                         ELSE [@ EXCEPT !.pc = "skm_insert", !.tm = r.tm]]
  /\ UNCHANGED <<deDupKeyMap, deDupMap, deDupLock, peerLock, peerActived, rx, rxq, pcdCnt, wire,
                 sh, running, closed, tmFaulty, deDup, bcl, schVars>>

SkmcInsert(c) ==
  /\ Settled /\ skmc[c].pc = "skm_insert"
  /\ deDupKeyMap' = [deDupKeyMap EXCEPT !["A"] = SkmInsert(@, skmc[c].key, skmc[c].tm)]
  /\ skmc' = [skmc EXCEPT ![c].pc = "ret", ![c].skm = SKM_OK]
  /\ UNCHANGED <<deDupMap, tmDedup, deDupLock, peerLock, peerActived, rx, rxq, pcdCnt, wire,
                 sh, running, closed, tmFaulty, deDup, bcl, schVars>>

SkmcReturn(c) ==
  /\ skmc[c].pc = "ret"
  /\ skmc' = [skmc EXCEPT ![c] = SkmcIdle]
  /\ UNCHANGED <<shellVars, sh, running, closed, tmFaulty, deDup, bcl, schVars>>

InitSkm ==
  /\ running = {"A"} /\ closed = FALSE /\ tmFaulty = FALSE
  /\ deDup = [n \in Nodes |-> TRUE]
  /\ InitShell /\ skmc = [c \in SkmCallers |-> SkmcIdle]

NextSkm ==
  \/ \E c \in SkmCallers, k \in Keys : SkmcCall(c, k)
  \/ \E c \in SkmCallers : SkmcTimer(c)
  \/ \E c \in SkmCallers : SkmcInsert(c)
  \/ \E c \in SkmCallers : SkmcReturn(c)
  \/ Tick("A")

SpecSkm == InitSkm /\ [][NextSkm]_vars

\* ------------------------------------------------- the scheduler alone ----

\* The scheduler after schSchedulerInit, without static task and without shell.
InitSdl ==
  /\ running = {} /\ closed = FALSE /\ tmFaulty = FALSE
  /\ deDup = [n \in Nodes |-> TRUE]
  /\ InitShell /\ skmc = EmptyMap

\* The calls of the goroutines that use the scheduler.
UsrNext ==
  \/ \E u \in Users, name \in TaskNames, flag \in {SchCreatedGo, SchCreatedSuspend} : schCreateTask(u, name, flag)
  \/ \E u \in Users : schCreateTaskMap(u)
  \/ \E u \in Users : schCreateTaskGo(u)
  \/ \E u \in Users, name \in TaskNames : schStartTask(u, name)
  \/ \E u \in Users, ptn \in TaskNodes : schStartTaskEx(u, ptn)
  \/ \E u \in Users : schStartTaskGo(u)
  \/ \E u \in Users, name \in TaskNames : schStopTask(u, name)
  \/ \E u \in Users : schStopTaskDone(u)
  \/ \E u \in Users : schStopTaskWait(u)
  \/ \E u \in Users, ptn \in TaskNodes : schSendMsg(u, ptn, EvUser)

\* The goroutines of schCommonTask.
DspNext ==
  \/ \E d \in DspIds : schCommonTask(d)
  \/ \E d \in DspIds : schCommonTaskMsg(d)
  \/ \E d \in DspIds : schCommonTaskProc(d)
  \/ \E d \in DspIds : TaskProcReturn(d)
  \/ \E d \in DspIds : schTaskDone(d)
  \/ \E d \in DspIds : schCommonTaskDone(d)
  \/ \E d \in DspIds : schCommonTaskStopped(d)
  \/ \E d \in DspIds : schStopTaskEx(d)
  \/ \E d \in DspIds : schKillTaskTimers(d)
  \/ \E d \in DspIds : schStopTaskExClean(d)
  \/ \E d \in DspIds : schStopTaskExRet(d)
  \/ \E d \in DspIds : schStopTaskExName(d)

\* The timers of the tasks.
TmNext ==
  \/ \E d \in DspIds, tdc \in TimerDescs : schSetTimer(d, tdc)
  \/ \E d \in DspIds, tid \in KillTids : schKillTimer(d, tid)
  \/ \E t \in TimerNodes : schTimerCommonTask(t)
  \/ \E t \in TimerNodes : TimerExpire(t)
  \/ \E t \in TimerNodes : TimerLock(t)
  \/ \E t \in TimerNodes : schSendTimerEvent(t)
  \/ \E t \in TimerNodes : TimerStop(t)
  \/ \E t \in TimerNodes : TimerKilled(t)
  \/ \E t \in TimerNodes, d \in DspIds : TimerStopped(t, d)
  \/ \E t \in TimerNodes : schRetTimerNode(t)

NextSdl == UsrNext \/ DspNext

SpecSdl == InitSdl /\ [][NextSdl]_vars

\* One caller, the tasks it creates and stops, and their timers.
UsrTmNext ==
  \/ \E name \in TaskNames : schCreateTask("u1", name, SchCreatedGo)
  \/ schCreateTaskMap("u1")
  \/ schCreateTaskGo("u1")
  \/ \E name \in TaskNames : schStopTask("u1", name)
  \/ schStopTaskDone("u1")
  \/ schStopTaskWait("u1")
  \/ \E ptn \in TaskNodes : schSendMsg("u1", ptn, EvUser)

NextSdlTm == UsrTmNext \/ DspNext \/ TmNext

SpecSdlTm == InitSdl /\ [][NextSdlTm]_vars

\* schSchedulerStart, and the tasks it creates.
StartNext ==
  \/ \E tsd \in StaticTables, tpo \in PowerOnLists : schSchedulerStart(tsd, tpo)
  \/ StartCreate
  \/ schCreateTaskMap(BootUsr)
  \/ schCreateTaskGo(BootUsr)
  \/ StartCreated
  \/ StartPowerOn
  \/ StartPoweredOn
  \/ StartPowerOnList
  \/ StartListPoweredOn
  \/ StartOk

NextStart == StartNext \/ DspNext

SpecStart == InitSdl /\ [][NextStart]_vars

\* ------------------------------------------------------------ claims ----

Last(q) == q[Len(q)]

\* The step writes a frame to the tx channel of peer p of n: the channel, or what a
\* receive left of it, has one more frame at its end.
TxWrote(n, p) ==
  /\ p \in DOMAIN peerActived[n] /\ p \in DOMAIN peerActived'[n]
  /\ LET a == peerActived[n][p].txChan
         b == peerActived'[n][p].txChan
     IN /\ b # <<>> /\ b # a
        /\ \/ b = Append(a, Last(b))
           \/ a # <<>> /\ b = Append(Tail(a), Last(b))

BcrOnDup(n) ==
  /\ sh[n].pc = "idle" /\ sh'[n].pc # "idle" /\ sh'[n].op = "broadcastReq"
  /\ deDup[n] /\ sh'[n].req.mt \in MsgTypes
  /\ sh'[n].req.key \in DOMAIN deDupKeyMap[n]

IsTick(n, t) ==
  /\ t \in DOMAIN tmDedup[n]
  /\ tmDedup'[n] = TmTickProc(tmDedup[n]) /\ tmDedup'[n] # tmDedup[n]

\* C4: from the return of setKeyMap(k) with SKM_OK on, checkKeyMap(k) is SKM_DUPLICATED
\* until the T_key timer armed by that call expires, and SKM_OK once it has expired;
\* nothing else, the expiry of another timer in particular, takes k out of K.
C4_KeyLifetime ==
  [][\A n \in running, k \in Keys :
       k \in DOMAIN deDupKeyMap[n] =>
         LET t == deDupKeyMap[n][k] IN
           /\ checkKeyMap(deDupKeyMap[n], k) = SKM_DUPLICATED
           /\ t \in DOMAIN tmDedup[n] /\ tmDedup[n][t].armed /\ tmDedup[n][t].left >= 1
           /\ tmDedup[n][t].cb = "deDupKeyCb" /\ tmDedup[n][t].data[1] = k
           /\ IF IsTick(n, t) /\ t \in TmExpiring(tmDedup[n])
              THEN checkKeyMap(deDupKeyMap'[n], k) = SKM_OK
              ELSE k \in DOMAIN deDupKeyMap'[n] /\ deDupKeyMap'[n][k] = t]_vars

\* The timer of K[k] is in its last tick and an rx-worker has just found the key of a
\* payload frame in K.
C4_Witness ==
  \E n \in running, k \in Keys, p \in Nodes :
    /\ k \in DOMAIN deDupKeyMap[n] /\ deDupKeyMap[n][k] \in TmExpiring(tmDedup[n])
    /\ rx[n][p].pc = "ret" /\ rx[n][p].pkg.mid \in MsgTypes /\ rx[n][p].pkg.key = k
    /\ rx[n][p].st = SKM_DUPLICATED /\ ~rx[n][p].fwd

\* C7: the RPTK written in reply to a CHKK(k) of peer p goes to the tx channel of p and to
\* no other, carries k, and its status is KS_EXIST exactly when k was in K at the lookup
\* of checkKeyFromPeer; no RPTK is written otherwise.
C7_RptkReply ==
  [][\A n \in running, p \in Nodes :
       /\ (rx[n][p].pc = "idle" /\ rx'[n][p].pc = "rptk_send") =>
            /\ rx'[n][p].pkg.mid = "MID_CHKK"
            /\ rx'[n][p].st = (IF rx'[n][p].pkg.key \in DOMAIN deDupKeyMap[n] THEN KS_EXIST ELSE KS_NOTEXIST)
       /\ (rx[n][p].pc = "rptk_send" /\ rx'[n][p].pc # "rptk_send") =>
            /\ Last(peerActived'[n][p].txChan) = RptkPkg(rx[n][p].pkg.key, rx[n][p].st)
            /\ \A q \in DOMAIN peerActived[n] \ {p} : peerActived'[n][q] = peerActived[n][q]
       /\ (TxWrote(n, p) /\ Last(peerActived'[n][p].txChan).mid = "MID_RPTK") =>
            rx[n][p].pc = "rptk_send"]_vars

\* A CHKK for a key in K has been answered: RPTK with KS_EXIST is the last frame written.
C7_Witness ==
  \E n \in running, k \in Keys, p \in Nodes :
    /\ rx[n][p].pc = "ret" /\ rx[n][p].pkg = ChkkPkg(k) /\ rx[n][p].ret = SchEnoNone
    /\ rx[n][p].st = KS_EXIST
    /\ peerActived[n][p].txChan # <<>> /\ Last(peerActived[n][p].txChan) = RptkPkg(k, KS_EXIST)

\* C9 as stated: no goroutine is ever at a send on a tx channel that is full.
C9_NoSendWaits ==
  \A n \in running, p \in Nodes : ~SenderWaits(n, p)

\* C10 as stated: every frame written to a tx channel is written while the peer is active.
C10_NoFrameToClosing ==
  [][\A n \in running, p \in Nodes :
       TxWrote(n, p) => peerActived[n][p].status = pisActive]_vars

\* The armed timers of the pool of n that evict key k from K.
KeyTimers(n, k) ==
  {t \in DOMAIN tmDedup[n] :
     tmDedup[n][t].armed /\ tmDedup[n][t].cb = "deDupKeyCb" /\ tmDedup[n][t].data[1] = k}

\* C3 as stated: setKeyMap is atomic, so that of the calls for a key at the same time
\* one alone returns SKM_OK, and one eviction timer at most is armed for a key.
C3_OneKeyTimer ==
  \A k \in Keys :
    Cardinality(KeyTimers("A", k)) <= 1

\* Timer t of the pool of n is armed, with callback cb and data d.
Armed(n, t, cb, d) ==
  /\ t \in DOMAIN tmDedup[n] /\ tmDedup[n][t].armed
  /\ tmDedup[n][t].cb = cb /\ tmDedup[n][t].data = d

\* C5 as stated: outside setKeyMap, every entry of K and of P has its armed timer in the
\* pool of the deduplication timers, and every armed timer of the pool is that of an entry.
C5_TimersMatchEntries ==
  \A n \in running :
    sh[n].pc # "skm_insert" =>
      /\ \A k \in DOMAIN deDupKeyMap[n] : Armed(n, deDupKeyMap[n][k], "deDupKeyCb", <<k, NoVal>>)
      /\ \A ddk \in DOMAIN deDupMap[n] : Armed(n, deDupMap[n][ddk].timer, "deDupTimerCb", ddk)
      /\ \A t \in DOMAIN tmDedup[n] :
           tmDedup[n][t].armed =>
             IF tmDedup[n][t].cb = "deDupKeyCb"
             THEN /\ tmDedup[n][t].data[1] \in DOMAIN deDupKeyMap[n]
                  /\ deDupKeyMap[n][tmDedup[n][t].data[1]] = t
             ELSE /\ tmDedup[n][t].data \in DOMAIN deDupMap[n]
                  /\ deDupMap[n][tmDedup[n][t].data].timer = t

\* The iteration of broadcastReq for peer p calls checkKey in this step, P[k, p] existing.
CheckKeyOnEntry(n, p) ==
  /\ sh[n].pc = "bcr_loop" /\ p \in sh[n].todo /\ p \notin sh'[n].todo
  /\ deDup[n] /\ peerActived[n][p].status = pisActive /\ NotExcluded(sh[n].req, p)
  /\ <<sh[n].req.key, p>> \in DOMAIN deDupMap[n]

\* C6: checkKey for a peer p and a key k of which P[k, p] exists returns
\* SchEnoDuplicated, writes nothing to the tx channel of p and leaves P and the timers
\* as they are.
C6_CheckKeyDuplicated ==
  [][\A n \in running, p \in Nodes :
       CheckKeyOnEntry(n, p) =>
         /\ sh'[n].pc = "bcr_loop" /\ sh'[n].ck = SchEnoDuplicated /\ sh'[n].peer = p
         /\ UNCHANGED <<peerActived, deDupMap, tmDedup, deDupLock>>]_vars

\* checkKey has returned SchEnoDuplicated for a peer whose tx channel had room.
C6_Witness ==
  \E n \in running, p \in Nodes :
    /\ sh[n].pc = "bcr_loop" /\ sh[n].ck = SchEnoDuplicated /\ sh[n].peer = p
    /\ <<sh[n].req.key, p>> \in DOMAIN deDupMap[n]
    /\ ~TxFull(peerActived[n][p])

\* The one broadcast request handed in so far is a valid one at A that does not exclude B.
OneBroadcastAtA ==
  /\ Len(bcl) = 1 /\ bcl[1].node = "A"
  /\ bcl[1].req.mt \in MsgTypes /\ NotExcluded(bcl[1].req, "B")

\* The frames of the handshake for request req, as they pass between A and B.
Handshake(req) ==
  << [from |-> "A", to |-> "B", pkg |-> [pid |-> "PID_EXT", mid |-> "MID_CHKK", key |-> req.key, status |-> NoVal]],
     [from |-> "B", to |-> "A", pkg |-> [pid |-> "PID_EXT", mid |-> "MID_RPTK", key |-> req.key, status |-> KS_NOTEXIST]],
     [from |-> "A", to |-> "B", pkg |-> [pid |-> "PID_EXT", mid |-> req.mt, key |-> req.key, status |-> NoVal]] >>

\* The frames that have passed are the first ones of the handshake, in its order.
HandshakeOrder ==
  OneBroadcastAtA =>
    /\ Len(wire) <= 3
    /\ wire = SubSeq(Handshake(bcl[1].req), 1, Len(wire))

\* A negotiates the key of the one broadcast with B.
Negotiating ==
  OneBroadcastAtA /\ <<bcl[1].req.key, "B">> \in DOMAIN deDupMap["A"]

\* T_chk expired before A handled the RPTK: the entry of P is gone while the RPTK has
\* not reached the rx-worker of A, or has not got to its lookup in P.
TimedOut ==
  /\ OneBroadcastAtA /\ <<bcl[1].req.key, "B">> \notin DOMAIN deDupMap["A"]
  /\ pcdCnt["A"][<<bcl[1].req.key, "B">>] = 0
  /\ Len(wire) < 2 \/ rxq["A"]["B"] # <<>> \/ rx["A"]["B"].pc = "rptk_dedup"

\* C8: A and B connected, B not holding k, no tx channel full: a broadcast of k at A puts
\* on the wire CHKK{k} from A to B, then RPTK{k, KS_NOTEXIST} from B to A, then the payload
\* frame with PID_EXT from A to B, these and in this order; and all three are sent in the
\* end, unless T_chk expires before A handles the RPTK.
C8_Handshake ==
  /\ []HandshakeOrder
  /\ Negotiating ~> (Len(wire) = 3 \/ TimedOut \/ Len(bcl) > 1)

\* The three frames have passed.
C8_Witness ==
  OneBroadcastAtA /\ Len(wire) = 3 /\ wire = Handshake(bcl[1].req)

\* The rx-worker of p takes in this step an RPTK(k, KS_NOTEXIST) that decodes, P[k, p]
\* existing and p being out of the peer table or not pisActive.
RptkFromGone(n, p, k) ==
  /\ rx[n][p].pc = "idle" /\ rx'[n][p].pc # "idle"
  /\ rx'[n][p].pkg = RptkPkg(k, KS_NOTEXIST)
  /\ <<k, p>> \in DOMAIN deDupMap[n]
  /\ p \notin DOMAIN peerActived[n] \/ peerActived[n][p].status # pisActive

\* C11: an RPTK(k, KS_NOTEXIST) of a peer p that is out of the peer table or pisClosing is
\* dropped with SchEnoNotFound: no frame is written, P[k, p] and its timer stay; and while
\* p is not active, P[k, p] leaves P only in the TickProc in which its chkkTime timer expires.
C11_RptkFromGonePeer ==
  [][\A n \in running, p \in Nodes, k \in Keys :
       /\ RptkFromGone(n, p, k) =>
            /\ rx'[n][p].pc = "ret" /\ rx'[n][p].ret = SchEnoNotFound
            /\ UNCHANGED <<peerActived, deDupMap, tmDedup, pcdCnt>>
       /\ ( /\ <<k, p>> \in DOMAIN deDupMap[n] /\ <<k, p>> \notin DOMAIN deDupMap'[n]
            /\ ~PeerIsActive(peerActived[n], p) ) =>
            /\ IsTick(n, deDupMap[n][<<k, p>>].timer)
            /\ deDupMap[n][<<k, p>>].timer \in TmExpiring(tmDedup[n])]_vars

\* The RPTK of a closing peer has been dropped, the entry of P and its armed timer staying.
C11_Witness ==
  \E n \in running, p \in Nodes, k \in Keys :
    /\ rx[n][p].pc = "ret" /\ rx[n][p].pkg = RptkPkg(k, KS_NOTEXIST)
    /\ rx[n][p].ret = SchEnoNotFound
    /\ p \in DOMAIN peerActived[n] /\ peerActived[n][p].status = pisClosing
    /\ <<k, p>> \in DOMAIN deDupMap[n]
    /\ Armed(n, deDupMap[n][<<k, p>>].timer, "deDupTimerCb", <<k, p>>)

\* ---- the scheduler ----

\* The goroutine d of schCommonTask is inside the entry function of its task.
InProc(d) == dsp[d].pc \in {"proc", "kill_wait", "done_nil"}

\* The goroutines of schCommonTask that are inside the entry function of the task of ptn.
Invoking(ptn) == {d \in DspIds : dsp[d].ptn = ptn /\ InProc(d)}

\* C12: per task, the entry function is invoked on the messages of the mailbox in the
\* order in which their sends completed, each message once and none skipped: the message
\* of an invocation is the one accepted next after the message of the invocation before.
C12_Fifo ==
  [][\A d \in DspIds :
       dsp[d].pc = "call" /\ dsp'[d].pc = "proc" => dsp[d].msg.id = mbCalled[dsp[d].ptn] + 1]_vars

\* C13: at most one invocation of the entry function of a task is in progress.
C13_OneInvocation == \A ptn \in TaskNodes : Cardinality(Invoking(ptn)) <= 1

\* No schCreateTask and no schStopTaskEx is between its first and its last step.
NoneMidway ==
  /\ \A u \in Users : usr[u].pc \notin {"cr_map", "cr_enq"}
  /\ \A d \in DspIds : dsp[d].pc \notin {"busy_deque", "kill_timers", "kt_wait", "tcb_clean", "ret_node", "del_name"}

\* C14: when no creation and no teardown is midway, every node of the pool is in exactly
\* one of the free ring and the busy ring, and freeSize + busySize is the size of the pool.
C14_PoolPartition ==
  NoneMidway =>
    /\ \A n \in TaskNodes : (n \in Ring(tkLink, tkFree)) # (n \in Ring(tkLink, tkBusy))
    /\ freeSize + busySize = schTaskNodePoolSize

\* The tasks that live: the nodes of the busy ring.
LiveTasks == Ring(tkLink, tkBusy)

\* C15: schCreateTask with a name the registry holds returns SchEnoDuplicated and leaves
\* the registry as it is; and no two live tasks bear the same name.
C15_DuplicateName ==
  /\ [][\A u \in Users :
          usr[u].pc = "cr_map" /\ usr'[u] # usr[u] /\ usr[u].name \in DOMAIN tkMap
            => usr'[u].pc = "idle" /\ usr'[u].eno = SchEnoDuplicated /\ tkMap' = tkMap]_vars
  /\ [](\A n1, n2 \in LiveTasks :
          n1 # n2 /\ schTaskNodePool[n1].name # "" => schTaskNodePool[n1].name # schTaskNodePool[n2].name)

\* A creation is refused for a name of the registry while its task lives.
C15_Witness ==
  \E u \in Users :
    /\ usr[u].pc = "idle" /\ usr[u].eno = SchEnoDuplicated
    /\ "tsk" \in DOMAIN tkMap /\ tkMap["tsk"] \in LiveTasks
    /\ schTaskNodePool[tkMap["tsk"]].name = "tsk"

\* No schStopTaskEx for the node ptn is between schTcbClean and its end.
NoTeardown(ptn) == \A d \in DspIds : dsp[d].ptn = ptn => dsp[d].pc \notin {"ret_node", "del_name"}

\* C16: once the teardown of a task is complete its name is out of the registry: a name
\* of the registry is the name of the task of its node.
C16_NameRemoved ==
  \A nm \in DOMAIN tkMap : NoTeardown(tkMap[nm]) => schTaskNodePool[tkMap[nm]].name = nm

\* C17: schStopTask for a running task returns: its caller, whose done signal the task
\* accepted, is never left to receive from a nil channel.
C17_StopReturns == \A u \in Users : usr[u].pc # "sp_wait_nil"

\* The goroutine d left the loop of schCommonTask on the done signal of schTaskDone.
SelfDone(d) == dsp[d].eno = SchEnoPowerOff

\* schKillTaskTimers of the goroutine d waits for the acknowledgment of a timer that has
\* yet to take the lock of the task, which d holds until schKillTaskTimers returns.
KillTaskTimersStuck(d) ==
  /\ dsp[d].pc = "kt_wait"
  /\ schTaskNodePool[dsp[d].ptn].lock = DspOwner(d)
  /\ schTimerNodePool[dsp[d].tm].pc # "stopped"

\* C18: a task that calls schTaskDone on itself is reaped: its teardown is never left
\* waiting, short of the return of its node to the free ring, for what cannot come.
C18_SelfDoneReaped == \A d \in DspIds : SelfDone(d) => ~KillTaskTimersStuck(d)

\* C19: the teardown of a task that owns live timers terminates: schKillTaskTimers is
\* never left waiting for the acknowledgment of a timer that cannot send it.
C19_KillTaskTimersEnds == \A d \in DspIds : ~SelfDone(d) => ~KillTaskTimersStuck(d)

\* The slot of the task the timer node t is the timer of.
SlotOf(t) ==
  LET tm == schTimerNodePool[t]
      tcb == schTaskNodePool[tm.taskNode]
  IN IF tm.pc = "begin" /\ (\E i \in TmSlots : tcb.tmTab[i] = t)
     THEN CHOOSE i \in TmSlots : tcb.tmTab[i] = t ELSE tm.tid

\* The timers of the slot tid of the task of ptn that are neither killed nor expired: an
\* expired absolute timer and a killed timer are cleaned, and leave their task.
TimersOfSlot(ptn, tid) ==
  {t \in TimerNodes : /\ schTimerNodePool[t].pc \notin {"ret", "stopped"}
                      /\ schTimerNodePool[t].taskNode = ptn
                      /\ SlotOf(t) = tid}

ExpiredUnderKill(d) ==
  /\ dsp[d].pc = "kill_wait"
  /\ schTimerNodePool[dsp[d].tm].epoch = dsp[d].tep
  /\ schTimerNodePool[dsp[d].tm].kind = schTmTypeAbsolute
  /\ schTimerNodePool[dsp[d].tm].sent > 0
  /\ schTimerNodePool[dsp[d].tm].pc \in {"ret", "none"}

\* C21: schKillTimer for an absolute timer returns under every interleaving with the
\* expiry of the timer: its caller is never left to wait for the acknowledgment of a
\* timer that has taken the expiry case and ended.
C21_KillReturns == \A d \in DspIds : ~ExpiredUnderKill(d)

\* The timer node t holds an absolute timer.
IsAbs(t) == schTimerNodePool[t].tmt = schTmTypeAbsolute

\* C22: an absolute timer sends one event, of which Id is EvTimerBase + utid and Body
\* the extra of the description, and with it leaves its slot and the timer index; its
\* node then enters the free ring; an absolute timer that takes the stop signal has
\* sent no event and sends none while it ends.
C22_AbsoluteTimer ==
  [][\A t \in TimerNodes :
       LET tm == schTimerNodePool[t]
           ptn == tm.taskNode
       IN /\ IsAbs(t) /\ tm.pc = "expired" /\ schTimerNodePool'[t].pc # "expired" /\ ~panicked'
               => /\ tm.sent = 0 /\ schTimerNodePool'[t].pc = "ret"
                  /\ schTaskNodePool'[ptn].que.buf =
                       Append(schTaskNodePool[ptn].que.buf,
                              [id |-> mbSent[ptn] + 1, Id |-> EvTimerBase + tm.utid, Body |-> tm.extra])
                  /\ schTaskNodePool'[ptn].tmTab[tm.tid] = NilNode
                  /\ t \notin DOMAIN tmMap'
          /\ tm.pc = "ret" /\ schTimerNodePool'[t].pc = "none" => t \in Ring(tmLink', tmFree')
          /\ tm.kind = schTmTypeAbsolute /\ schTimerNodePool'[t].pc \in {"stopping", "stopped"} => tm.sent = 0
          /\ tm.pc \in {"stopping", "stopped"} /\ schTimerNodePool'[t] # tm => mbSent' = mbSent]_vars

\* An absolute timer has sent its event and its node is back in the free ring.
C22_Witness ==
  \E t \in TimerNodes :
    /\ schTimerNodePool[t].kind = schTmTypeAbsolute /\ schTimerNodePool[t].sent = 1
    /\ schTimerNodePool[t].pc = "none" /\ t \in Ring(tmLink, tmFree)
    /\ \A ptn \in TaskNodes, i \in TmSlots : schTaskNodePool[ptn].tmTab[i] # t

\* C23: a timer node schSetTimer handed out and of which the goroutine has ended is
\* back in the free ring of the timer nodes, and out of the slot of its task.
C23_TimerCleaned ==
  \A t \in TimerNodes :
    schTimerNodePool[t].epoch > 0 /\ schTimerNodePool[t].pc = "none"
      => /\ t \in Ring(tmLink, tmFree)
         /\ \A ptn \in TaskNodes, i \in TmSlots : schTaskNodePool[ptn].tmTab[i] # t

\* C24: schStartTask and schStartTaskEx pass their test of the status, and go on to
\* start the task, only for a task that exists: not for a node schTcbClean has reset.
C24_StartOnlySuspended ==
  [][\A u \in Users :
       usr[u].pc = "idle" /\ usr'[u].pc = "st_go" => schTaskNodePool[usr'[u].ptn].utep]_vars

\* The messages schSchedulerStart sent in one of its two loops.
SentBy(by) == SelectSeq(boot.sent, LAMBDA e : e.by = by)

\* The entries of the static table of flag SchCreatedGo.
GoEntries == {i \in 1..Len(boot.tsd) : boot.tsd[i].Flag = SchCreatedGo}

\* C25: when schSchedulerStart has returned SchEnoNone, its loop over the static table
\* has created a task for every entry and has sent EvSchPoweron for exactly the entries
\* of flag SchCreatedGo, for each once and to the node created for it, and its loop over
\* tpo has sent one EvSchPoweron more for every name of tpo for which
\* schGetTaskNodeByName found a node, to that node, and nothing else.
C25_StartPowerOn ==
  boot.pc = "ret" /\ boot.eno = SchEnoNone =>
    /\ Len(boot.made) = Len(boot.tsd)
    /\ {SentBy("tsd")[k].at : k \in 1..Len(SentBy("tsd"))} = GoEntries
    /\ Len(SentBy("tsd")) = Cardinality(GoEntries)
    /\ \A k \in 1..Len(SentBy("tsd")) :
         LET e == SentBy("tsd")[k]
         IN e.name = boot.tsd[e.at].Name /\ e.ptn = boot.made[e.at]
    /\ SentBy("tpo") = boot.found
    /\ \A k \in 1..Len(boot.found) :
         LET e == boot.found[k]
         IN e.name = boot.tpo[e.at] /\ e.name \in DOMAIN boot.name2PtnMap
    /\ \A k, l \in 1..Len(boot.found) : k < l => boot.found[k].at < boot.found[l].at
    /\ Len(boot.sent) = Len(SentBy("tsd")) + Len(SentBy("tpo"))

C25_Witness ==
  /\ boot.pc = "ret" /\ boot.eno = SchEnoNone
  /\ \E k \in 1..Len(boot.tsd) : boot.tsd[k].Flag = SchCreatedSuspend
  /\ Len(SentBy("tsd")) = 1 /\ Len(SentBy("tpo")) = 1
  /\ SentBy("tpo")[1].name # SentBy("tsd")[1].name
  /\ "none" \in {boot.tpo[k] : k \in 1..Len(boot.tpo)}

\* ---- the peer table ----

\* The handler op of the shell task of n, for the peer p, runs in this step.
ShHandles(n, op, p) ==
  sh[n].pc = "idle" /\ sh'[n].pc = "ret" /\ sh'[n].op = op /\ sh'[n].peer = p

\* C26: peerActiveInd for a peer that is in the peer table returns an error, leaves the
\* table as it is and spawns no rx-worker; an rx-worker is spawned only in the step that
\* puts its peer into the table.
C26_ActiveIndDuplicated ==
  [][\A n \in Nodes, p \in Nodes :
       /\ ShHandles(n, "peerActiveInd", p) /\ p \in DOMAIN peerActived[n] =>
            /\ sh'[n].ret = SchEnoUserTask
            /\ peerActived'[n] = peerActived[n]
            /\ rx'[n] = rx[n]
       /\ rx[n][p].pc = "none" /\ rx'[n][p].pc # "none" =>
            /\ ShHandles(n, "peerActiveInd", p)
            /\ p \notin DOMAIN peerActived[n] /\ p \in DOMAIN peerActived'[n]]_vars

C26_Witness ==
  \E n \in Nodes, p \in Nodes :
    /\ sh[n].pc = "ret" /\ sh[n].op = "peerActiveInd" /\ sh[n].peer = p
    /\ sh[n].ret = SchEnoUserTask
    /\ p \in DOMAIN peerActived[n] /\ rx[n][p].pc = "none"

\* C27: an entry of the peer table is put in as pisActive, goes from pisActive to
\* pisClosing only and is removed only when pisClosing.  peerAskToCloseInd on a pisActive
\* entry sets pisClosing and sends one EvPeCloseReq; on a pisClosing entry it returns
\* SchEnoMismatched and sends nothing.  peerCloseCfm removes a pisClosing entry, returns
\* SchEnoMismatched for a pisActive one and SchEnoNotFound for a peer not in the table,
\* and in the cases of error the table stays as it is.
C27_PeerLifecycle ==
  [][\A n \in Nodes, p \in Nodes :
       LET pa == peerActived[n]
           pb == peerActived'[n]
           in == p \in DOMAIN pa
       IN /\ ~in /\ p \in DOMAIN pb => pb[p].status = pisActive
          /\ in /\ p \in DOMAIN pb /\ pb[p].status # pa[p].status =>
               pa[p].status = pisActive /\ pb[p].status = pisClosing
          /\ in /\ p \notin DOMAIN pb => pa[p].status = pisClosing
          /\ ShHandles(n, "peerAskToCloseInd", p) /\ in =>
               IF pa[p].status = pisActive
               THEN /\ pb = [pa EXCEPT ![p].status = pisClosing]
                    /\ sh'[n].ret = SchEnoNone /\ sh'[n].out = "EvPeCloseReq"
               ELSE /\ pb = pa
                    /\ sh'[n].ret = SchEnoMismatched /\ sh'[n].out = NoVal
          /\ ShHandles(n, "peerCloseCfm", p) =>
               IF ~in THEN pb = pa /\ sh'[n].ret = SchEnoNotFound
               ELSE IF pa[p].status = pisActive THEN pb = pa /\ sh'[n].ret = SchEnoMismatched
               ELSE /\ pb = Del(pa, p) /\ sh'[n].ret = SchEnoNone]_vars

C27_Witness ==
  \E n \in Nodes, p \in Nodes :
    /\ sh[n].pc = "ret" /\ sh[n].op = "peerCloseCfm" /\ sh[n].peer = p
    /\ sh[n].ret = SchEnoNone /\ p \notin DOMAIN peerActived[n]

\* ---- the pending checks ----

\* The step writes no frame to a tx channel of n and counts no discard.
NoFrame(n) ==
  \A q \in DOMAIN peerActived[n] :
    q \in DOMAIN peerActived'[n] =>
      /\ ~TxWrote(n, q)
      /\ peerActived'[n][q].txDiscrd = peerActived[n][q].txDiscrd

\* C28: P[k, p] is put in only by checkKey of a broadcastReq for k and p.  It is taken
\* out by an RPTK(k) of p, with no frame written when the status is KS_EXIST and with one
\* call of send2Peer for the kept request when it is KS_NOTEXIST (the payload is written
\* to the tx channel of p once, or discarded because the channel is full), or by the
\* tick that expires its timer, which writes no frame.  An RPTK(k) of p that finds no
\* P[k, p] returns SchEnoNotFound, writes no frame and leaves P as it is.
C28_PendingEntry ==
  [][\A n \in running, k \in Keys, p \in Nodes :
       LET ddk == <<k, p>>
           P == deDupMap[n]
           r == rx[n][p]
           byRptk == r.pc = "rptk_dedup" /\ r.pkg.key = k /\ rx'[n][p].pc # "rptk_dedup"
       IN /\ ddk \notin DOMAIN P /\ ddk \in DOMAIN deDupMap'[n] =>
               /\ sh[n].pc = "chkk_send" /\ sh[n].op = "broadcastReq"
               /\ sh[n].req.key = k /\ sh[n].cur = p
               /\ deDupMap'[n][ddk].bcReq = sh[n].req
          /\ ddk \in DOMAIN P /\ ddk \notin DOMAIN deDupMap'[n] =>
               IF byRptk
               THEN IF r.pkg.status = KS_EXIST
                    THEN /\ rx'[n][p].pc = "ret" /\ rx'[n][p].ret = SchEnoNone
                         /\ NoFrame(n)
                    ELSE \/ /\ rx'[n][p].pc = "pcd_send" /\ rx'[n][p].req = P[ddk].bcReq
                            /\ NoFrame(n)
                         \/ /\ rx'[n][p].pc = "ret" /\ rx'[n][p].ret = SchEnoResource
                            /\ TxFull(peerActived[n][p])
                            /\ peerActived'[n] = [peerActived[n] EXCEPT ![p] = Discard(@)]
               ELSE /\ \A q \in Nodes : rx'[n][q].pc = rx[n][q].pc
                    /\ sh'[n].pc = sh[n].pc
                    /\ NoFrame(n)
          /\ r.pc = "pcd_send" /\ r.req.key = k /\ rx'[n][p].pc # "pcd_send" =>
               /\ rx'[n][p].pc = "ret"
               /\ TxWrote(n, p) /\ Last(peerActived'[n][p].txChan) = bcr2Package(r.req)
               /\ pcdCnt'[n][ddk] = pcdCnt[n][ddk] + 1
               /\ ddk \notin DOMAIN deDupMap'[n]
          /\ byRptk /\ ddk \notin DOMAIN P =>
               /\ rx'[n][p].pc = "ret" /\ rx'[n][p].ret = SchEnoNotFound
               /\ NoFrame(n)
               /\ deDupMap'[n] = P]_vars

\* The payload of a request kept in P was written after an RPTK(KS_NOTEXIST).
C28_Witness ==
  \E n \in running, k \in Keys, p \in Nodes :
    /\ rx[n][p].pc = "ret" /\ rx[n][p].pkg = RptkPkg(k, KS_NOTEXIST) /\ rx[n][p].ret = SchEnoNone
    /\ <<k, p>> \notin DOMAIN deDupMap[n]
    /\ pcdCnt[n][<<k, p>>] = 1
    /\ peerActived[n][p].txChan # <<>> /\ Last(peerActived[n][p].txChan).mid \in MsgTypes

\* ---- the frames of the peers ----

\* The rx-worker of peer p of n is done with a frame in this step.
RxDone(n, p) == rx[n][p].pc # "ret" /\ rx'[n][p].pc = "ret"

\* C29: with deduplication, rxProc writes a frame that is not CHKK, RPTK, GCD or PCD to
\* shMgr.rxChan iff checkKeyMap finds its key not in K; it never writes a CHKK or an
\* RPTK there, and a GCD only when the sender is in the peer table and pisActive.
C29_Forwarding ==
  [][\A n \in running, p \in Nodes :
       RxDone(n, p) /\ deDup[n] =>
         LET pkg == rx'[n][p].pkg
             fwd == rx'[n][p].fwd
         IN /\ pkg.mid \in {"MID_CHKK", "MID_RPTK"} => ~fwd
            /\ pkg.mid = "MID_GCD" => (fwd => PeerIsActive(peerActived[n], p))
            /\ pkg.mid \notin {"MID_CHKK", "MID_RPTK", "MID_GCD", "MID_PCD"} =>
                 /\ rx[n][p].pc = "idle"
                 /\ fwd <=> pkg.key \notin DOMAIN deDupKeyMap[n]]_vars

\* A payload frame of a peer was dropped, its key being in K.
C29_Witness ==
  \E n \in running, p \in Nodes :
    /\ deDup[n] /\ rx[n][p].pc = "ret" /\ rx[n][p].pkg.mid \in MsgTypes
    /\ ~rx[n][p].fwd /\ rx[n][p].pkg.key \in DOMAIN deDupKeyMap[n]

\* ---- the loop of broadcastReq ----

\* The shell task of n, in the loop of a broadcastReq with deduplication, takes a step.
BcrLoopStep(n) ==
  /\ sh[n].pc = "bcr_loop" /\ sh[n].op = "broadcastReq" /\ deDup[n]
  /\ sh'[n].pc # "bcr_loop" \/ sh'[n].todo # sh[n].todo

BcrFindsFull(n, p) ==
  /\ BcrLoopStep(n)
  /\ p \in sh[n].todo /\ sh'[n].todo = sh[n].todo \ {p}
  /\ peerActived[n][p].status = pisActive
  /\ sh[n].req.exclude = NoVal \/ sh[n].req.exclude # p
  /\ TxFull(peerActived[n][p])

\* C31: when the loop of a broadcastReq for k comes to a peer p whose tx channel is
\* full, no CHKK is written, txDiscrd of p goes up by one, P gets no entry for (k, p),
\* no timer is taken or armed, K[k] stays, and the loop goes on without p.
C31_FullChannel ==
  [][\A n \in running, p \in Nodes :
       BcrFindsFull(n, p) =>
         /\ peerActived'[n] = [peerActived[n] EXCEPT ![p] = Discard(@)]
         /\ peerActived'[n][p].txDiscrd = peerActived[n][p].txDiscrd + 1
         /\ peerActived'[n][p].txChan = peerActived[n][p].txChan
         /\ deDupMap'[n] = deDupMap[n] /\ <<sh[n].req.key, p>> \notin DOMAIN deDupMap'[n]
         /\ tmDedup'[n] = tmDedup[n]
         /\ deDupKeyMap'[n] = deDupKeyMap[n] /\ sh[n].req.key \in DOMAIN deDupKeyMap[n]
         /\ sh'[n].pc = "bcr_loop" /\ sh'[n].ck = SchEnoUserTask]_vars

\* The broadcast has returned, having found the channel of an active peer full.
C31_Witness ==
  \E n \in running, p \in Nodes :
    /\ sh[n].pc = "ret" /\ sh[n].op = "broadcastReq" /\ sh[n].ret = SchEnoNone /\ deDup[n]
    /\ sh[n].ck = SchEnoUserTask /\ sh[n].peer = p
    /\ PeerIsActive(peerActived[n], p) /\ TxFull(peerActived[n][p])
    /\ peerActived[n][p].txDiscrd > 0
    /\ sh[n].req.key \in DOMAIN deDupKeyMap[n]
    /\ <<sh[n].req.key, p>> \notin DOMAIN deDupMap[n]

\* The rx-worker of p takes in this step the CHKK of k, k being in K.
ChkkHeld(n, p, k) ==
  /\ rx[n][p].pc = "idle" /\ rx'[n][p].pc # "idle"
  /\ rx'[n][p].pkg = ChkkPkg(k)
  /\ k \in DOMAIN deDupKeyMap[n]

\* The rx-worker of p writes in this step the report it has made up.
RptkWritten(n, p) == rx[n][p].pc = "rptk_send" /\ rx'[n][p].pc = "ret"

\* The frames that have passed between the nodes, and those in the tx channels.
FramesOut ==
  {wire[i].pkg : i \in DOMAIN wire}
    \cup UNION {{peerActived[np[1]][np[2]].txChan[i] : i \in DOMAIN peerActived[np[1]][np[2]].txChan} :
                  np \in {x \in Nodes \X Nodes : x[2] \in DOMAIN peerActived[x[1]]}}

\* Every report that has passed says KS_EXIST.
OnlyExistReported ==
  \A i \in DOMAIN wire : wire[i].pkg.mid = "MID_RPTK" => wire[i].pkg.status = KS_EXIST

\* No payload frame was written, and no rx-worker is about to write one.
NoPayloadOut ==
  /\ \A f \in FramesOut : f.mid \notin MsgTypes
  /\ \A n \in Nodes, p \in Nodes : rx[n][p].pc # "pcd_send"

\* C32: two nodes, each the peer of the other, both broadcasting key k: a node that has k
\* in K when its rx-worker takes the CHKK of the other makes up the report KS_EXIST, and
\* that is the report it writes; while every report that has passed says KS_EXIST, neither
\* node has written a payload frame to the other, nor is about to.
C32_BothOriginate ==
  /\ [][\A n \in Nodes : \A p \in Nodes \ {n} :
          /\ \A k \in Keys :
               ChkkHeld(n, p, k) =>
                 /\ rx'[n][p].st = KS_EXIST
                 /\ rx'[n][p].pc = "rptk_send" \/ rx'[n][p].ret = SchEnoUserTask
          /\ RptkWritten(n, p) =>
               /\ peerActived'[n][p].txChan # <<>>
               /\ peerActived'[n][p].txChan[Len(peerActived'[n][p].txChan)]
                    = RptkPkg(rx[n][p].pkg.key, rx[n][p].st)]_vars
  /\ [](OnlyExistReported => NoPayloadOut)

\* Both nodes have broadcast k, each has had the CHKK of the other and the report
\* KS_EXIST in answer, and all is quiet.
C32_Witness ==
  /\ \E i, j \in DOMAIN bcl : bcl[i].node = "A" /\ bcl[j].node = "B" /\ bcl[i].req.key = bcl[j].req.key
  /\ \A n \in Nodes : \E i, j \in DOMAIN wire :
       /\ wire[i] = [from |-> n, to |-> CHOOSE p \in Nodes : p # n, pkg |-> ChkkPkg(bcl[1].req.key)]
       /\ wire[j] = [from |-> n, to |-> CHOOSE p \in Nodes : p # n, pkg |-> RptkPkg(bcl[1].req.key, KS_EXIST)]
  /\ OnlyExistReported /\ NoPayloadOut
  /\ \A n \in Nodes : sh[n].pc = "idle" /\ deDupMap[n] = EmptyMap
  /\ \A n \in Nodes : \A p \in Nodes \ {n} : rx[n][p].pc = "idle" /\ peerActived[n][p].txChan = <<>>

\* The goroutine of the timer t has the lock of its task.
HasTaskLock(t) ==
  /\ schTimerNodePool[t].taskNode # NilNode
  /\ schTaskNodePool[schTimerNodePool[t].taskNode].lock = TmOwner(t)

\* C33: no goroutine takes the lock of a task while it has sdl.lock; the goroutine that
\* has sdl.lock beyond one section (an absolute timer in its expiry case) took the lock of
\* its task before and has it still, so that it waits for no lock: the two locks are
\* taken in one order, and no goroutine waits for one while it keeps the other from
\* a goroutine that waits in turn.
C33_LockOrder ==
  /\ [][\A ptn \in TaskNodes :
          /\ schTaskNodePool'[ptn].lock # schTaskNodePool[ptn].lock
          /\ schTaskNodePool'[ptn].lock # NoOwner
          => sdlLock # schTaskNodePool'[ptn].lock]_vars
  /\ [](\A t \in TimerNodes :
          sdlLock = TmOwner(t) => HasTaskLock(t) /\ schTimerNodePool[t].pc = "expired")
  /\ [](sdlLock = NoOwner \/ \E t \in TimerNodes : sdlLock = TmOwner(t))

\* An absolute timer, in its expiry case, waits at the full mailbox of its task with the
\* lock of the task and sdl.lock.
C33_Witness ==
  \E t \in TimerNodes :
    /\ IsAbs(t) /\ schTimerNodePool[t].pc = "expired"
    /\ HasTaskLock(t) /\ sdlLock = TmOwner(t)
    /\ Len(schTaskNodePool[schTimerNodePool[t].taskNode].que.buf) = MbSize

\* The tick goroutine of n can take deDupLock and no handler is to end before the tick.
TickDue(n) ==
  /\ Settled /\ n \in running /\ deDup[n] /\ deDupLock[n] = NoLock
  /\ ~ShLate(n) /\ \A p \in Nodes : ~RxLate(n, p)

TimerActs(t) == schTimerNodePool'[t].pc # schTimerNodePool[t].pc

\* C35: a step that puts a timer into tmMap or takes one out is a step of a goroutine
\* that has sdl.lock: no other goroutine has the lock, and a goroutine of a timer that
\* takes the step is that of an absolute timer, the one that locks sdl.lock in the cases
\* of its select.
C35_TmMapUnderLock ==
  [][tmMap' # tmMap =>
       /\ \A t \in TimerNodes : TimerActs(t) /\ schTimerNodePool[t].pc \in {"expired", "stopping"} => IsAbs(t)
       /\ sdlLock = NoOwner \/ \E t \in TimerNodes : TimerActs(t) /\ sdlLock = TmOwner(t)]_vars

\* The goroutine d of schCommonTask takes in this step a message out of the mailbox, for
\* which it calls the entry function next.
TakesMsg(d) ==
  /\ dsp[d].pc = "select" /\ dsp'[d].pc = "call"
  /\ dsp'[d].msg # NoMsg

\* C36: once a done signal is written for a task, its goroutine takes no further message
\* out of the mailbox for the entry function: a message is taken only while no done
\* signal waits in the done channel of the task.
C36_NoCallAfterDone ==
  [][\A d \in DspIds : TakesMsg(d) => schTaskNodePool[dsp[d].ptn].done.buf = <<>>]_vars

\* The caller u of schSendMsg waits at the channel send on the mailbox it found, which
\* schTcbClean has closed since: the send of u is one on a closed channel.
SendOnClosed(u) ==
  /\ usr[u].pc = "sd_send"
  /\ LET tcb == schTaskNodePool[usr[u].ptn]
     IN SendTry(tcb.que, MbSize, tcb.epoch, usr[u].w) = "panic"

\* C37: schSendMsg never sends on a closed mailbox: under every interleaving with the
\* teardown of the receiver its send completes on the open mailbox, or it returns an error.
C37_NoSendOnClosed == \A u \in Users : ~SendOnClosed(u)

\* The goroutine of the timer t waits at the channel send of schSendTimerEvent, the
\* mailbox of its task being full, and has sdl.lock.
SendsUnderSdl(t) ==
  /\ schTimerNodePool[t].pc = "expired" /\ sdlLock = TmOwner(t)
  /\ LET tcb == schTaskNodePool[schTimerNodePool[t].taskNode]
     IN SendTry(tcb.que, MbSize, tcb.epoch, NoEp) = "block"

\* C38: no goroutine that waits at a send on a mailbox has sdl.lock: a timer that expires
\* for a task of which the mailbox is full keeps no other goroutine from sdl.lock.
C38_NoSendUnderSdl == \A t \in TimerNodes : ~SendsUnderSdl(t)

\* The shell task of n handles a getChainInfoReq in this step.
GciStep(n) ==
  /\ sh[n].pc = "idle" /\ sh'[n].pc = "ret"
  /\ sh'[n].op = "getChainInfoReq"

\* A GCD frame is written in this step to the tx channel of a pisActive peer of n.
GcdEnqueued(n) ==
  \E p \in DOMAIN peerActived[n] :
    /\ peerActived[n][p].status = pisActive
    /\ peerActived'[n][p].txChan = Append(peerActived[n][p].txChan, GcdPkg)

\* C39: getChainInfoReq returns SchEnoNone when, and only when, it has written a GCD
\* frame to the tx channel of at least one pisActive peer, and SchEnoResource when it
\* has written none.
C39_GciResult ==
  [][\A n \in running :
       GciStep(n) =>
         /\ sh'[n].ret = SchEnoNone <=> GcdEnqueued(n)
         /\ ~GcdEnqueued(n) => sh'[n].ret = SchEnoResource]_vars

\* C40: schKillTimer with a tid that is no slot of the table (below 0, or schMaxTaskTimer
\* and above) returns SchEnoParameter: the table is not indexed and nothing changes but
\* what the caller gets back.
C40_KillTidRange ==
  [][\A d \in DspIds, tid \in KillTids \ TmSlots :
       schKillTimer(d, tid) =>
         /\ ~panicked' /\ dsp'[d].hret = SchEnoParameter
         /\ UNCHANGED <<schTaskNodePool, schTimerNodePool, tmMap>>]_vars

====
